---- MODULE Spec2Model ----
(***************************************************************************)
(* A model of the shared-memory layer of LangSwarm-Memory:                 *)
(*   - the key/value adapters of src/memswarm (gcs, gcs_memory, sqlite,    *)
(*     redis_memory, in_memory, chromadb_memory),                          *)
(*   - HybridSharedMemory (cache tier + durable tier),                     *)
(*   - the lock wrappers ThreadSafeSharedMemory, AsyncSafeSharedMemory and *)
(*     ThreadSafeAdapter,                                                  *)
(*   - HybridCentralizedIndex.query with its dedup / sort / truncate.      *)
(* Each component has its own specification (SpecHybrid, SpecLock,         *)
(* SpecAdapter, SpecIndex) over its own variables; a specification keeps   *)
(* the variables of the other components at their initial value.           *)
(*                                                                         *)
(* Python values.  A value is a string or a dict {"value": x, "metadata":  *)
(* m} around a value x.  Both are written as one record                    *)
(*     [base |-> the innermost string, layers |-> <<m_outer, ..., m_inner>>]*)
(* so that a string has no layer and wrapping a value into an entry dict   *)
(* adds one layer in front.  The values modelled are quote-free strings,   *)
(* None and dicts of them; on these eval(str(x)) = x, so that a stored     *)
(* str(entry) is written as the entry itself.                              *)
(* Python strings that are sliced, split, compared or used as prefixes     *)
(* (keys, context ids, timestamps) are sequences of one-character strings. *)
(***************************************************************************)
EXTENDS Integers, Sequences, FiniteSets, TLC

VARIABLES
    clock,      \* datetime.utcnow(), in whole seconds since 2024-01-01T00:00:00Z
    \* ---- HybridSharedMemory ----
    hkinds,     \* [cache |-> adapter class of self.cache, backend |-> of self.backend,
                \*  faulty |-> whether a tier can be unreachable]
    cache,      \* the cache tier's store: key -> stored value
    backend,    \* the durable tier's store
    hpc,        \* per caller: position inside the hybrid method it is executing
    hcall,      \* per caller: the call being executed or last completed
    \* ---- lock wrappers ----
    wkind,      \* which wrapper class the instance is
    lockOwner,  \* holder of self.lock, or Nobody
    wpc,        \* per caller: position inside the wrapper method
    wcall,      \* per caller: the wrapper call being executed or last completed
    wmem,       \* the wrapped adapter's store
    \* ---- one adapter ----
    akind,      \* the adapter class
    store,      \* its store: key -> stored value
    alast,      \* the last adapter operation and its outcome
    \* ---- HybridCentralizedIndex ----
    config,     \* the config dict the index is built from (self.config)
    ipc,        \* the construction: not yet run, ready, or failed and with what
    registry,   \* self.backends: the registered backend names, in insertion order
    answers,    \* what each registered backend finds for the query text
    qlast,      \* the last query: its arguments, the collected results, its result
    \* ---- rerankers and retrievers ----
    rcall       \* a call of a workflow or retriever: its inputs, then its result

hvars == <<hkinds, cache, backend, hpc, hcall>>
wvars == <<wkind, lockOwner, wpc, wcall, wmem>>
avars == <<akind, store, alast>>
ivars == <<config, ipc, registry, answers, qlast>>
rvars == <<rcall>>
vars == <<clock, hvars, wvars, avars, ivars, rvars>>

(***************************************************************************)
(* Bounds of the model.                                                    *)
(***************************************************************************)
MaxClock == 1       \* the clock advances at most to this second
MaxResults == 3     \* a query collects at most this many results in all
MaxEntries == 2     \* a context adapter is written to while it holds fewer entries
MaxScore == 2       \* a reranker's scores go from 0 to this many halves

(***************************************************************************)
(* Strings as character sequences.                                         *)
(***************************************************************************)
Digits == <<"0", "1", "2", "3", "4", "5", "6", "7", "8", "9">>

Chars == <<"-", "0", "1", "2", "3", "4", "5", "6", "7", "8", "9", ":",
           "T", "Z", "a", "b", "c", "k">>

\* The characters above are listed in ASCII order: Ord(c) is c's rank.
Ord(c) == CHOOSE i \in 1..Len(Chars) : Chars[i] = c

\* Python's s < t on strings.
RECURSIVE StrLess(_, _)
StrLess(s, t) ==
    IF t = <<>> THEN FALSE
    ELSE IF s = <<>> THEN TRUE
    ELSE IF Head(s) = Head(t) THEN StrLess(Tail(s), Tail(t))
    ELSE Ord(Head(s)) < Ord(Head(t))

\* Python's s.startswith(p).
StartsWith(s, p) == Len(p) <= Len(s) /\ SubSeq(s, 1, Len(p)) = p

TwoDigits(n) == <<Digits[(n \div 10) + 1], Digits[(n % 10) + 1]>>

\* datetime.utcnow().strftime("%Y-%m-%dT%H:%M:%SZ") at second n of 2024-01-01.
StrfTime(n) ==
    <<"2", "0", "2", "4", "-", "0", "1", "-", "0", "1", "T">>
    \o TwoDigits((n \div 3600) % 24) \o <<":">>
    \o TwoDigits((n \div 60) % 60) \o <<":">>
    \o TwoDigits(n % 60) \o <<"Z">>

(***************************************************************************)
(* Python values, metadata dicts and stores.                               *)
(***************************************************************************)
None == [base |-> "None", layers |-> <<>>]
Str(s) == [base |-> s, layers |-> <<>>]
IsStr(x) == x.layers = <<>> /\ x # None

\* The dict {"value": x, "metadata": m}.
EntryOf(x, m) == [base |-> x.base, layers |-> <<m>> \o x.layers]
IsEntry(x) == x.layers # <<>>
\* entry["value"] and entry["metadata"].
ValueField(e) == [base |-> e.base, layers |-> Tail(e.layers)]
MetadataField(e) == Head(e.layers)

\* A caller's metadata dict is a function from the keys it carries; None and {}
\* are both the empty function (every adapter starts with metadata or {}).
NoMetadata == <<>>
DictGet(md, k, default) == IF k \in DOMAIN md THEN md[k] ELSE default

\* A store is a function from the keys it holds.
EmptyStore == <<>>
Holds(s, k) == k \in DOMAIN s
Lookup(s, k) == IF k \in DOMAIN s THEN s[k] ELSE None
Put(s, k, x) == [y \in DOMAIN s \cup {k} |-> IF y = k THEN x ELSE s[y]]
Remove(s, k) == [y \in DOMAIN s \ {k} |-> s[y]]

\* _get_default_metadata(metadata): the six fields, timestamp defaulted to now.
\* (A missing timestamp field of a value is the empty string <<>>.)
GetDefaultMetadata(md, now) ==
    [agent      |-> DictGet(md, "agent", "None"),
     timestamp  |-> DictGet(md, "timestamp", now),
     llm        |-> DictGet(md, "llm", "None"),
     action     |-> DictGet(md, "action", "None"),
     confidence |-> DictGet(md, "confidence", "None"),
     query      |-> DictGet(md, "query", "None")]

(***************************************************************************)
(* The keyed adapters: read(key), write(key, value[, metadata]),           *)
(* delete(key), clear().  A write returns the new store and the exception  *)
(* it raised ("none" when it returned normally).                           *)
(***************************************************************************)
NoExc == "none"
KeyedKinds == {"gcs", "gcs_memory", "sqlite"}

\* gcs.py, GCSSharedMemory.read: the blob's text, None when the blob does not exist.
GcsRead(s, k) == Lookup(s, k)

\* gcs.py, GCSSharedMemory.write(key, value): upload_from_string(value) takes a
\* str (or bytes) and raises TypeError for anything else; no metadata is stored.
GcsWrite(s, k, x) ==
    IF IsStr(x) THEN [store |-> Put(s, k, x), exc |-> NoExc]
    ELSE [store |-> s, exc |-> "TypeError"]

\* gcs_memory.py, GCSSharedMemory.read: eval of the blob's text.
GcsMemoryRead(s, k) == Lookup(s, k)

\* gcs_memory.py, GCSSharedMemory.write: uploads str({"value", "metadata"}).
GcsMemoryWrite(s, k, x, md, now) ==
    [store |-> Put(s, k, EntryOf(x, GetDefaultMetadata(md, now))), exc |-> NoExc]

\* sqlite.py, SQLiteSharedMemory.read: {"value": row[0], "metadata": eval(row[1])}.
SqliteRead(s, k) == Lookup(s, k)

\* sqlite.py, SQLiteSharedMemory.write: INSERT OR REPLACE of (key, value,
\* str(metadata)); sqlite3 binds a str value and raises for a dict.
SqliteWrite(s, k, x, md, now) ==
    IF IsStr(x)
    THEN [store |-> Put(s, k, EntryOf(x, GetDefaultMetadata(md, now))), exc |-> NoExc]
    ELSE [store |-> s, exc |-> "sqlite3.Error"]

\* adapter.read(key) of a tier of class kind.
TierRead(kind, s, k) ==
    CASE kind = "gcs" -> GcsRead(s, k)
      [] kind = "gcs_memory" -> GcsMemoryRead(s, k)
      [] kind = "sqlite" -> SqliteRead(s, k)

\* adapter.write(key, value) of a tier of class kind, called with two arguments.
TierWrite(kind, s, k, x, now) ==
    CASE kind = "gcs" -> GcsWrite(s, k, x)
      [] kind = "gcs_memory" -> GcsMemoryWrite(s, k, x, NoMetadata, now)
      [] kind = "sqlite" -> SqliteWrite(s, k, x, NoMetadata, now)

\* What a reader of the stored value sees as "the value": the string itself, or
\* the "value" field of an entry dict.
ValueOf(x) == IF IsEntry(x) THEN ValueField(x) ELSE x

\* delete(key) of the keyed adapters: gcs deletes the blob if it exists, sqlite
\* runs DELETE ... WHERE key = ?; neither raises for an absent key.
GcsDelete(s, k) ==
    IF Holds(s, k) THEN [store |-> Remove(s, k), exc |-> NoExc]
    ELSE [store |-> s, exc |-> NoExc]

SqliteDelete(s, k) == [store |-> Remove(s, k), exc |-> NoExc]

\* (mutant of TierDelete: the tier keeps the key.)
TierDelete_Kept(kind, s, k) == [store |-> s, exc |-> NoExc]

TierDelete(kind, s, k) ==
    CASE kind = "gcs" -> GcsDelete(s, k)
      [] kind = "gcs_memory" -> GcsDelete(s, k)
      [] kind = "sqlite" -> SqliteDelete(s, k)

\* clear(): every blob under the prefix / every row of the table.
TierClear(kind, s) == [store |-> EmptyStore, exc |-> NoExc]

(***************************************************************************)
(* HybridSharedMemory.  Every tier call is one step, so that the calls of  *)
(* concurrent callers interleave as the code lets them; a tier call may    *)
(* fail with ConnectionError (the backend is unreachable).                 *)
(***************************************************************************)
Procs == {"p1", "p2"}
\* The keys the tiers hold; writes and deletes through the hybrid go to the
\* first, the second is a bystander that is only read.
HKeys == {<<"k", "1">>, <<"k", "2">>}
HWriteKeys == {<<"k", "1">>}
HValues == {"a", "b"}
\* The third argument of a hybrid.write call: none, or a metadata dict.
NoArg == [noarg |-> TRUE]
HMetadataArgs == {NoArg, [agent |-> "x"]}

\* (mutant of CacheHit: the cache's answer is ignored.)
CacheHit_Ignored(value) == FALSE

\* hybrid_memory.py:47 and :52, `if value is not None`.
CacheHit(value) == value # None
BackendHit(value) == value # None

\* hybrid_memory.py:56, `def write(self, key, value)`: a call that passes a
\* third (metadata) argument does not bind and raises TypeError.
HybridWriteBinds(md) == md = NoArg

\* (mutant of Uncaught: a handler that swallows the error.)
Uncaught_Swallowed(exc) == NoExc

\* No method of HybridSharedMemory has an exception handler: what a tier call
\* raises is what the caller of the hybrid method gets.
Uncaught(exc) == exc

NoCall ==
    [op |-> "none", key |-> <<>>, value |-> None, md |-> NoArg,
     local |-> None, result |-> None, exc |-> NoExc, raised |-> NoExc,
     log |-> <<>>, preC |-> None, preB |-> None, after |-> "none",
     args |-> <<>>, keys |-> <<>>, scopeC |-> <<>>, scopeB |-> <<>>,
     prev |-> [read |-> FALSE, result |-> None]]

\* The record of a call as it starts: op, arguments, and (for the properties) what
\* each tier held under the key at that moment.  During the call it collects the
\* tier calls made (log), the method's local `value`, and at the end the result,
\* the exception raised inside (raised) and the one the caller got (exc).  A
\* read also records whether it follows a removal (after) and what the caller's
\* last call returned when that was a read of the same key (prev); a write_scope or
\* read_scope records its arguments (args), the key each tier stored the entry
\* under (keys) and what each tier's read_scope returned (scopeC, scopeB).
NewCall(op, k, x, md) ==
    [NoCall EXCEPT !.op = op, !.key = k, !.value = x, !.md = md,
                   !.preC = Lookup(cache, k), !.preB = Lookup(backend, k)]

\* A tier call can find its tier unreachable where the tiers can fail at all.
Unreachable == hkinds.faulty

HStep(p, pc, log) ==
    /\ hpc' = [hpc EXCEPT ![p] = pc]
    /\ hcall' = [hcall EXCEPT ![p].log = Append(hcall[p].log, log)]

HFinish(p, log, result, exc) ==
    /\ hpc' = [hpc EXCEPT ![p] = "ready"]
    /\ hcall' = [hcall EXCEPT ![p].log = Append(hcall[p].log, log),
                              ![p].result = result,
                              ![p].raised = exc,
                              ![p].exc = Uncaught(exc)]

HOther == UNCHANGED <<clock, hkinds, wvars, avars, ivars, rvars>>

\* The removal a call for key k follows: "delete" or "clear" when the caller's
\* last call was a delete(k) or a clear() that returned normally, else "none".
Follows(last, k) ==
    IF last.exc = NoExc /\ (last.op = "clear" \/ (last.op = "delete" /\ last.key = k))
    THEN last.op
    ELSE "none"

\* What the caller's last call returned, when it was a read(k) that returned.
Previous(last, k) ==
    IF last.op = "read" /\ last.key = k /\ last.exc = NoExc
    THEN [read |-> TRUE, result |-> last.result]
    ELSE [read |-> FALSE, result |-> None]

\* ---- read(key), hybrid_memory.py:44-54 ----
HReadCall(p, k) ==
    /\ hpc[p] = "ready"
    /\ hpc' = [hpc EXCEPT ![p] = "read_cache"]
    /\ hcall' = [hcall EXCEPT ![p] =
           [NewCall("read", k, None, NoArg) EXCEPT !.after = Follows(hcall[p], k),
                                                   !.prev = Previous(hcall[p], k)]]
    /\ UNCHANGED <<cache, backend>> /\ HOther

HReadCache(p) ==
    /\ hpc[p] = "read_cache"
    /\ \/ /\ Unreachable /\ HFinish(p, "cache.read", None, "ConnectionError")
       \/ LET value == TierRead(hkinds.cache, cache, hcall[p].key) IN
          IF CacheHit(value)
          THEN HFinish(p, "cache.read", value, NoExc)
          ELSE HStep(p, "read_backend", "cache.read")
    /\ UNCHANGED <<cache, backend>> /\ HOther

HReadBackend(p) ==
    /\ hpc[p] = "read_backend"
    /\ \/ /\ Unreachable /\ HFinish(p, "backend.read", None, "ConnectionError")
       \/ LET value == TierRead(hkinds.backend, backend, hcall[p].key) IN
          IF BackendHit(value)
          THEN /\ hpc' = [hpc EXCEPT ![p] = "read_writeback"]
               /\ hcall' = [hcall EXCEPT ![p].log = Append(hcall[p].log, "backend.read"),
                                         ![p].local = value]
          ELSE HFinish(p, "backend.read", value, NoExc)
    /\ UNCHANGED <<cache, backend>> /\ HOther

HReadWriteBack(p) ==
    /\ hpc[p] = "read_writeback"
    /\ \/ /\ Unreachable /\ HFinish(p, "cache.write", None, "ConnectionError")
          /\ UNCHANGED cache
       \/ LET r == TierWrite(hkinds.cache, cache, hcall[p].key, hcall[p].local,
                             StrfTime(clock)) IN
          /\ cache' = r.store
          /\ IF r.exc = NoExc
             THEN HFinish(p, "cache.write", hcall[p].local, NoExc)
             ELSE HFinish(p, "cache.write", None, r.exc)
    /\ UNCHANGED backend /\ HOther

\* ---- write(key, value), hybrid_memory.py:56-58 ----
HWriteCall(p, k, v, md) ==
    /\ hpc[p] = "ready"
    /\ IF HybridWriteBinds(md)
       THEN /\ hpc' = [hpc EXCEPT ![p] = "write_cache"]
            /\ hcall' = [hcall EXCEPT ![p] = NewCall("write", k, Str(v), md)]
       ELSE /\ hpc' = hpc
            /\ hcall' = [hcall EXCEPT ![p] =
                   [NewCall("write", k, Str(v), md) EXCEPT !.exc = "TypeError"]]
    /\ UNCHANGED <<cache, backend>> /\ HOther

HWriteCache(p) ==
    /\ hpc[p] = "write_cache"
    /\ \/ /\ Unreachable /\ HFinish(p, "cache.write", None, "ConnectionError")
          /\ UNCHANGED cache
       \/ LET r == TierWrite(hkinds.cache, cache, hcall[p].key, hcall[p].value,
                             StrfTime(clock)) IN
          /\ cache' = r.store
          /\ IF r.exc = NoExc
             THEN HStep(p, "write_backend", "cache.write")
             ELSE HFinish(p, "cache.write", None, r.exc)
    /\ UNCHANGED backend /\ HOther

HWriteBackend(p) ==
    /\ hpc[p] = "write_backend"
    /\ \/ /\ Unreachable /\ HFinish(p, "backend.write", None, "ConnectionError")
          /\ UNCHANGED backend
       \/ LET r == TierWrite(hkinds.backend, backend, hcall[p].key, hcall[p].value,
                             StrfTime(clock)) IN
          /\ backend' = r.store
          /\ HFinish(p, "backend.write", None, r.exc)
    /\ UNCHANGED cache /\ HOther

\* ---- delete(key), hybrid_memory.py:60-62 ----
HDeleteCall(p, k) ==
    /\ hpc[p] = "ready"
    /\ hpc' = [hpc EXCEPT ![p] = "delete_cache"]
    /\ hcall' = [hcall EXCEPT ![p] = NewCall("delete", k, None, NoArg)]
    /\ UNCHANGED <<cache, backend>> /\ HOther

HDeleteCache(p) ==
    /\ hpc[p] = "delete_cache"
    /\ \/ /\ Unreachable /\ HFinish(p, "cache.delete", None, "ConnectionError")
          /\ UNCHANGED cache
       \/ /\ cache' = TierDelete(hkinds.cache, cache, hcall[p].key).store
          /\ HStep(p, "delete_backend", "cache.delete")
    /\ UNCHANGED backend /\ HOther

HDeleteBackend(p) ==
    /\ hpc[p] = "delete_backend"
    /\ \/ /\ Unreachable /\ HFinish(p, "backend.delete", None, "ConnectionError")
          /\ UNCHANGED backend
       \/ /\ backend' = TierDelete(hkinds.backend, backend, hcall[p].key).store
          /\ HFinish(p, "backend.delete", None, NoExc)
    /\ UNCHANGED cache /\ HOther

\* ---- clear(), hybrid_memory.py:64-66 ----
HClearCall(p) ==
    /\ hpc[p] = "ready"
    /\ hpc' = [hpc EXCEPT ![p] = "clear_cache"]
    /\ hcall' = [hcall EXCEPT ![p] = [NoCall EXCEPT !.op = "clear"]]
    /\ UNCHANGED <<cache, backend>> /\ HOther

HClearCache(p) ==
    /\ hpc[p] = "clear_cache"
    /\ \/ /\ Unreachable /\ HFinish(p, "cache.clear", None, "ConnectionError")
          /\ UNCHANGED cache
       \/ /\ cache' = TierClear(hkinds.cache, cache).store
          /\ HStep(p, "clear_backend", "cache.clear")
    /\ UNCHANGED backend /\ HOther

HClearBackend(p) ==
    /\ hpc[p] = "clear_backend"
    /\ \/ /\ Unreachable /\ HFinish(p, "backend.clear", None, "ConnectionError")
          /\ UNCHANGED backend
       \/ /\ backend' = TierClear(hkinds.backend, backend).store
          /\ HFinish(p, "backend.clear", None, NoExc)
    /\ UNCHANGED cache /\ HOther

(***************************************************************************)
(* The lock wrappers: ThreadSafeSharedMemory (threading.Lock) and          *)
(* AsyncSafeSharedMemory (asyncio.Lock) of memswarm/base.py, and           *)
(* ThreadSafeAdapter (threading.RLock) of wrappers/thread_safe_adapter.py. *)
(* Every method is `with self.lock: return self.<wrapped>.<method>(...)`.  *)
(* A caller is at "acquire" (entering the with statement), "inside" (the   *)
(* wrapped adapter's method is executing) or "exit" (the method has        *)
(* returned or raised and the with statement is being left).               *)
(* ThreadSafeSharedMemory declares similarity_search abstract, so its      *)
(* instances are those of a subclass that defines it.                      *)
(***************************************************************************)
WrapperKinds == {"ThreadSafeSharedMemory", "AsyncSafeSharedMemory", "ThreadSafeAdapter"}
Nobody == "nobody"
WKeys == {<<"k", "1">>}
WValues == {"a", "b"}
\* read/write/delete/clear of the shared-memory wrappers; ThreadSafeAdapter's
\* query/add_documents/delete take their place on a ThreadSafeAdapter.
WOps == {"read", "write", "delete", "clear"}
WOpsOf(kind) == IF kind = "ThreadSafeAdapter" THEN {"read", "write", "delete"} ELSE WOps

NoWCall ==
    [op |-> "none", key |-> <<>>, value |-> None, result |-> None,
     exc |-> NoExc, raised |-> NoExc]

\* (mutant of LockAvailable: the lock is taken without waiting for it.)
LockAvailable_NoWait(owner, p, kind) == TRUE

\* Lock.acquire / asyncio.Lock.acquire proceed when the lock is free; RLock.acquire
\* also when the calling thread already owns it.
LockAvailable(owner, p, kind) ==
    \/ owner = Nobody
    \/ kind = "ThreadSafeAdapter" /\ owner = p

\* (mutant of ReleasedOnExit: acquire(); call; release() without try/finally.)
ReleasedOnExit_OnlyOnReturn(raised) == raised = NoExc

\* Leaving `with self.lock:` releases the lock, whether the body returned or raised.
ReleasedOnExit(raised) == TRUE

\* The with statement does not handle the exception: the caller gets it as raised.
Reraised(raised) == raised

\* Under asyncio a coroutine runs until it awaits something that suspends it;
\* between taking a free lock and leaving the with statement there is no such
\* point (the wrapped call is synchronous), so no other coroutine runs then.
Scheduled(p) ==
    wkind = "AsyncSafeSharedMemory" =>
        \A q \in Procs \ {p} : wpc[q] \notin {"inside", "exit"}

WOther == UNCHANGED <<clock, hvars, avars, ivars, rvars, wkind>>

WCall(p, op, k, v) ==
    /\ wpc[p] = "ready"
    /\ Scheduled(p)
    /\ op \in WOpsOf(wkind)
    /\ wpc' = [wpc EXCEPT ![p] = "acquire"]
    /\ wcall' = [wcall EXCEPT ![p] =
           [NoWCall EXCEPT !.op = op,
                           !.key = IF op = "clear" THEN <<>> ELSE k,
                           !.value = IF op = "write" THEN Str(v) ELSE None]]
    /\ UNCHANGED <<lockOwner, wmem>> /\ WOther

WAcquire(p) ==
    /\ wpc[p] = "acquire"
    /\ Scheduled(p)
    /\ LockAvailable(lockOwner, p, wkind)
    /\ lockOwner' = p
    /\ wpc' = [wpc EXCEPT ![p] = "inside"]
    /\ UNCHANGED <<wcall, wmem>> /\ WOther

\* The wrapped adapter's method runs to its end: it returns, or it raises (the
\* backend is unreachable).
WAdapterRun(p) ==
    /\ wpc[p] = "inside"
    /\ Scheduled(p)
    /\ wpc' = [wpc EXCEPT ![p] = "exit"]
    /\ \/ /\ wcall' = [wcall EXCEPT ![p].raised = "ConnectionError"]
          /\ UNCHANGED wmem
       \/ LET c == wcall[p] IN
          /\ wmem' = CASE c.op = "write" -> GcsWrite(wmem, c.key, c.value).store
                       [] c.op = "delete" -> GcsDelete(wmem, c.key).store
                       [] c.op = "clear" -> EmptyStore
                       [] OTHER -> wmem
          /\ wcall' = [wcall EXCEPT ![p].result =
                 IF c.op = "read" THEN GcsRead(wmem, c.key) ELSE None]
    /\ UNCHANGED lockOwner /\ WOther

WExit(p) ==
    /\ wpc[p] = "exit"
    /\ Scheduled(p)
    /\ lockOwner' = IF ReleasedOnExit(wcall[p].raised) THEN Nobody ELSE lockOwner
    /\ wpc' = [wpc EXCEPT ![p] = "ready"]
    /\ wcall' = [wcall EXCEPT ![p].exc = Reraised(wcall[p].raised)]
    /\ UNCHANGED wmem /\ WOther

\* thread_safe_adapter.py:48-54, __getattr__: any attribute the wrapper does not
\* define itself is looked up on the wrapped adapter and handed to the caller
\* as it is.  Calling such a method (here the adapter's capabilities) enters
\* the adapter at once: no statement of the wrapper runs around the call.
DelegatedOps == {"capabilities"}

WDelegated(p, op) ==
    /\ wkind = "ThreadSafeAdapter"
    /\ wpc[p] = "ready"
    /\ op \in DelegatedOps
    /\ wpc' = [wpc EXCEPT ![p] = "delegated"]
    /\ wcall' = [wcall EXCEPT ![p] = [NoWCall EXCEPT !.op = op]]
    /\ UNCHANGED <<lockOwner, wmem>> /\ WOther

\* The delegated method runs to its end and returns to the caller, or raises.
WDelegatedRun(p) ==
    /\ wpc[p] = "delegated"
    /\ wpc' = [wpc EXCEPT ![p] = "ready"]
    /\ \/ wcall' = [wcall EXCEPT ![p].raised = "ConnectionError",
                                 ![p].exc = "ConnectionError"]
       \/ wcall' = wcall
    /\ UNCHANGED <<lockOwner, wmem>> /\ WOther

(***************************************************************************)
(* The context adapters: RedisSharedMemory (redis_memory.py) and           *)
(* InMemorySharedMemory (in_memory.py), built with thread_safe=False (the  *)
(* lock of the thread-safe variant is the wrappers' concern, above).       *)
(* Their write takes (value, metadata, context_id) and derives the key.    *)
(***************************************************************************)
ContextKinds == {"redis", "in_memory"}

\* f"{context_id}:{timestamp}"
ContextKey(ctx, timestamp) == ctx \o <<":">> \o timestamp

\* (mutant of ContextWrite: an entry already stored under the key is kept.)
ContextWrite_KeepsFirst(s, x, md, ctx, now) ==
    [store |-> IF Holds(s, ContextKey(ctx, now)) THEN s
               ELSE Put(s, ContextKey(ctx, now), EntryOf(x, GetDefaultMetadata(md, now))),
     key |-> ContextKey(ctx, now),
     exc |-> NoExc]

\* write(value, metadata, context_id) of redis_memory.py:101-114 and
\* in_memory.py:80-90: the key takes the time of the write, the metadata are
\* _get_default_metadata(metadata).
ContextWrite(s, x, md, ctx, now) ==
    [store |-> Put(s, ContextKey(ctx, now), EntryOf(x, GetDefaultMetadata(md, now))),
     key |-> ContextKey(ctx, now),
     exc |-> NoExc]

\* The metadata of write_scope: {"agent_id": ..., "group_id": ..., "timestamp":
\* timestamp, **metadata}.
ScopeMetadata(md, now) ==
    [f \in {"agent_id", "group_id", "timestamp"} \cup DOMAIN md |->
        IF f \in DOMAIN md THEN md[f]
        ELSE IF f = "timestamp" THEN now ELSE "None"]

\* write_scope(value, metadata, context_id) of redis_memory.py:63-82 and
\* in_memory.py:45-61.
WriteScope(s, x, md, ctx, now) ==
    [store |-> Put(s, ContextKey(ctx, now), EntryOf(x, ScopeMetadata(md, now))),
     key |-> ContextKey(ctx, now),
     exc |-> NoExc]

\* (mutant of SortedKeys: the keys are used in the order the store lists them.)
SortedKeys_Unsorted(keys) == keys

\* sorted(keys): insertion of each key before the first greater one.
RECURSIVE SortedKeys(_)
SortedKeys(keys) ==
    IF keys = <<>> THEN <<>>
    ELSE LET rest == SortedKeys(Tail(keys))
             k == Head(keys)
             n == Cardinality({i \in 1..Len(rest) : StrLess(rest[i], k)})
         IN SubSeq(rest, 1, n) \o <<k>> \o SubSeq(rest, n + 1, Len(rest))

\* The orders in which a store can list a set of keys (redis KEYS gives them in
\* no particular order; a dict in insertion order).
RECURSIVE Listings(_)
Listings(keys) ==
    IF keys = {} THEN {<<>>}
    ELSE UNION {{<<k>> \o l : l \in Listings(keys \ {k})} : k \in keys}

\* The keys `pattern:*` selects (redis) / key.startswith(f"{context_id}:").
ContextMatches(s, ctx) == {k \in DOMAIN s : StartsWith(k, ctx \o <<":">>)}

\* read_context(context_id), redis_memory.py:84-99 and in_memory.py:63-78, given
\* the matching keys as the store listed them: the result dict's keys, in order.
ReadContext(listed) == SortedKeys(listed)

\* (mutant of InMemoryDelete: `del self.memory[key]` without the membership test.)
InMemoryDelete_NoTest(s, k) ==
    IF Holds(s, k) THEN [store |-> Remove(s, k), exc |-> NoExc]
    ELSE [store |-> s, exc |-> "KeyError"]

\* in_memory.py:92-102, `if key in self.memory: del self.memory[key]`.
InMemoryDelete(s, k) ==
    IF Holds(s, k) THEN [store |-> Remove(s, k), exc |-> NoExc]
    ELSE [store |-> s, exc |-> NoExc]

\* redis_memory.py:116-127, self.client.delete(key): DEL of an absent key deletes
\* nothing and is no error.
RedisDelete(s, k) == [store |-> Remove(s, k), exc |-> NoExc]

(***************************************************************************)
(* One adapter, used by one caller.  alast records the last operation.     *)
(***************************************************************************)
AdapterKinds == KeyedKinds \cup ContextKinds
AKeys == {<<"k", "1">>, <<"k", "2">>}
AValues == {"a", "b"}
\* The value written by context writes (their entries differ by key, by
\* metadata and by the method that wrote them).
ContextValues == {"a"}
\* Context ids: a plain one, and one that contains ":" and extends the first.
Contexts == {<<"c">>, <<"c", ":", "a">>}
\* The metadata a caller passes: none, or a dict carrying its own timestamp.
CallerTimestamp == <<"1", "9", "9", "9">>
AMetadataArgs == {NoMetadata, [timestamp |-> CallerTimestamp]}

\* The keys a context adapter can hold.
ContextKeys == {ContextKey(c, StrfTime(t)) : c \in Contexts, t \in 0..MaxClock}

NoACall ==
    [op |-> "none", key |-> <<>>, ctx |-> <<>>, value |-> None, md |-> NoMetadata,
     now |-> 0, result |-> None, listing |-> <<>>, exc |-> NoExc, again |-> FALSE]

\* The record of an operation; again says that the operation before it was the
\* same operation on the same key.
ACall(op, k, ctx, x, md) ==
    [NoACall EXCEPT !.op = op, !.key = k, !.ctx = ctx, !.value = x, !.md = md,
                    !.now = clock,
                    !.again = (alast.op = op /\ alast.key = k)]

AOther == UNCHANGED <<clock, hvars, wvars, ivars, rvars, akind>>

\* delete(key) of the adapter of class kind.
AdapterDelete(kind, s, k) ==
    CASE kind \in {"gcs", "gcs_memory"} -> GcsDelete(s, k)
      [] kind = "sqlite" -> SqliteDelete(s, k)
      [] kind = "redis" -> RedisDelete(s, k)
      [] kind = "in_memory" -> InMemoryDelete(s, k)

\* write(key, value[, metadata]) of a keyed adapter; gcs.py's write takes no
\* metadata argument, so that a call passing one raises TypeError.
AWrite(k, v, md) ==
    /\ akind \in KeyedKinds
    /\ LET r == CASE akind = "gcs" ->
                       IF md = NoArg THEN GcsWrite(store, k, Str(v))
                       ELSE [store |-> store, exc |-> "TypeError"]
                  [] akind = "gcs_memory" ->
                       GcsMemoryWrite(store, k, Str(v), IF md = NoArg THEN NoMetadata ELSE md,
                                      StrfTime(clock))
                  [] akind = "sqlite" ->
                       SqliteWrite(store, k, Str(v), IF md = NoArg THEN NoMetadata ELSE md,
                                   StrfTime(clock))
       IN /\ store' = r.store
          /\ alast' = [ACall("write", k, <<>>, Str(v), IF md = NoArg THEN NoMetadata ELSE md)
                          EXCEPT !.exc = r.exc]
    /\ AOther

ARead(k) ==
    /\ akind \in KeyedKinds
    /\ alast' = [ACall("read", k, <<>>, None, NoMetadata) EXCEPT
                    !.result = TierRead(akind, store, k)]
    /\ UNCHANGED store /\ AOther

\* The model stops writing new keys to a store that holds MaxEntries entries.
HasRoom(s, k) == Holds(s, k) \/ Cardinality(DOMAIN s) < MaxEntries

AContextWrite(v, md, ctx) ==
    /\ akind \in ContextKinds
    /\ HasRoom(store, ContextKey(ctx, StrfTime(clock)))
    /\ LET r == ContextWrite(store, Str(v), md, ctx, StrfTime(clock)) IN
       /\ store' = r.store
       /\ alast' = ACall("context_write", r.key, ctx, Str(v), md)
    /\ AOther

AWriteScope(v, md, ctx) ==
    /\ akind \in ContextKinds
    /\ HasRoom(store, ContextKey(ctx, StrfTime(clock)))
    /\ LET r == WriteScope(store, Str(v), md, ctx, StrfTime(clock)) IN
       /\ store' = r.store
       /\ alast' = ACall("write_scope", r.key, ctx, Str(v), md)
    /\ AOther

AReadContext(ctx) ==
    /\ akind \in ContextKinds
    /\ \E listed \in Listings(ContextMatches(store, ctx)) :
          alast' = [ACall("read_context", <<>>, ctx, None, NoMetadata) EXCEPT
                       !.listing = ReadContext(listed)]
    /\ UNCHANGED store /\ AOther

ADelete(k) ==
    /\ LET r == AdapterDelete(akind, store, k) IN
       /\ store' = r.store
       /\ alast' = [ACall("delete", k, <<>>, None, NoMetadata) EXCEPT !.exc = r.exc]
    /\ AOther

AClear ==
    /\ store' = EmptyStore
    /\ alast' = ACall("clear", <<>>, <<>>, None, NoMetadata)
    /\ AOther

(***************************************************************************)
(* write_scope and read_scope: of the context adapters, and of a           *)
(* HybridSharedMemory over two of them (hybrid_memory.py:12-42).  An id    *)
(* or a context that is not given is None.                                 *)
(***************************************************************************)
NoId == "None"
NoContext == <<>>
ScopeContexts == {<<"c">>, <<"d">>}
AgentIds == {"x", "y"}
GroupIds == {"g"}
\* The metadata of a write_scope call: an agent and a group.
ScopeMetadataArgs == {[agent_id |-> a, group_id |-> g] : a \in AgentIds, g \in GroupIds}

\* self.client.keys(f"{context_id}:*" if context_id else "*").
ScopeKeys(s, context_id) ==
    IF context_id # NoContext THEN ContextMatches(s, context_id) ELSE DOMAIN s

\* redis_memory.py:51-54: `if agent_id and metadata.get("agent_id") == agent_id`
\* takes the entry, `elif group_id and metadata.get("group_id") == group_id`
\* takes it too.
ScopeSelects(metadata, agent_id, group_id) ==
    \/ agent_id # NoId /\ DictGet(metadata, "agent_id", "None") = agent_id
    \/ group_id # NoId /\ DictGet(metadata, "group_id", "None") = group_id

\* RedisSharedMemory.read_scope, redis_memory.py:41-61: the dict of the
\* selected entries by key.
RedisReadScope(s, agent_id, group_id, context_id) ==
    [k \in {j \in ScopeKeys(s, context_id) :
               ScopeSelects(MetadataField(s[j]), agent_id, group_id)} |-> s[k]]

\* read_scope of a tier of class kind: InMemorySharedMemory has no such method.
TierReadScope(kind, s, agent_id, group_id, context_id) ==
    IF kind = "redis"
    THEN [result |-> RedisReadScope(s, agent_id, group_id, context_id), exc |-> NoExc]
    ELSE [result |-> <<>>, exc |-> "AttributeError"]

\* (mutant of DictMerge: the durable backend's entry wins.)
DictMerge_FirstWins(persistent_data, in_memory_data) ==
    [k \in DOMAIN persistent_data \cup DOMAIN in_memory_data |->
        IF k \in DOMAIN persistent_data THEN persistent_data[k] ELSE in_memory_data[k]]

\* hybrid_memory.py:41, {**persistent_data, **in_memory_data}.
DictMerge(persistent_data, in_memory_data) ==
    [k \in DOMAIN persistent_data \cup DOMAIN in_memory_data |->
        IF k \in DOMAIN in_memory_data THEN in_memory_data[k] ELSE persistent_data[k]]

\* ---- write_scope(value, metadata, context_id), hybrid_memory.py:12-22 ----
HWriteScopeCall(p, v, md, ctx) ==
    /\ hpc[p] = "ready"
    /\ Cardinality(DOMAIN cache \cup DOMAIN backend) < MaxEntries
    /\ hpc' = [hpc EXCEPT ![p] = "write_scope_cache"]
    /\ hcall' = [hcall EXCEPT ![p] =
           [NoCall EXCEPT !.op = "write_scope", !.value = Str(v),
                          !.args = [metadata |-> md, context_id |-> ctx]]]
    /\ UNCHANGED <<cache, backend>> /\ HOther

\* self.cache.write_scope(...): the tier takes the time itself.
HWriteScopeCache(p) ==
    /\ hpc[p] = "write_scope_cache"
    /\ \/ /\ Unreachable /\ HFinish(p, "cache.write_scope", None, "ConnectionError")
          /\ UNCHANGED cache
       \/ LET r == WriteScope(cache, hcall[p].value, hcall[p].args.metadata,
                              hcall[p].args.context_id, StrfTime(clock)) IN
          /\ cache' = r.store
          /\ hpc' = [hpc EXCEPT ![p] = "write_scope_backend"]
          /\ hcall' = [hcall EXCEPT ![p].log = Append(hcall[p].log, "cache.write_scope"),
                                    ![p].keys = Append(hcall[p].keys, r.key)]
    /\ UNCHANGED backend /\ HOther

\* self.backend.write_scope(...), at the time it is reached.
HWriteScopeBackend(p) ==
    /\ hpc[p] = "write_scope_backend"
    /\ \/ /\ Unreachable /\ HFinish(p, "backend.write_scope", None, "ConnectionError")
          /\ UNCHANGED backend
       \/ LET r == WriteScope(backend, hcall[p].value, hcall[p].args.metadata,
                              hcall[p].args.context_id, StrfTime(clock)) IN
          /\ backend' = r.store
          /\ hpc' = [hpc EXCEPT ![p] = "ready"]
          /\ hcall' = [hcall EXCEPT ![p].log = Append(hcall[p].log, "backend.write_scope"),
                                    ![p].keys = Append(hcall[p].keys, r.key)]
    /\ UNCHANGED cache /\ HOther

\* ---- read_scope(agent_id, group_id, context_id), hybrid_memory.py:24-42 ----
HReadScopeCall(p, agent_id, group_id, ctx) ==
    /\ hpc[p] = "ready"
    /\ hpc' = [hpc EXCEPT ![p] = "read_scope_cache"]
    /\ hcall' = [hcall EXCEPT ![p] =
           [NoCall EXCEPT !.op = "read_scope",
                          !.args = [agent_id |-> agent_id, group_id |-> group_id,
                                    context_id |-> ctx]]]
    /\ UNCHANGED <<cache, backend>> /\ HOther

HReadScopeCache(p) ==
    /\ hpc[p] = "read_scope_cache"
    /\ \/ Unreachable /\ HFinish(p, "cache.read_scope", None, "ConnectionError")
       \/ LET a == hcall[p].args
              r == TierReadScope(hkinds.cache, cache, a.agent_id, a.group_id, a.context_id)
          IN IF r.exc # NoExc
             THEN HFinish(p, "cache.read_scope", None, r.exc)
             ELSE /\ hpc' = [hpc EXCEPT ![p] = "read_scope_backend"]
                  /\ hcall' = [hcall EXCEPT ![p].log = Append(hcall[p].log, "cache.read_scope"),
                                            ![p].scopeC = r.result]
    /\ UNCHANGED <<cache, backend>> /\ HOther

HReadScopeBackend(p) ==
    /\ hpc[p] = "read_scope_backend"
    /\ \/ Unreachable /\ HFinish(p, "backend.read_scope", None, "ConnectionError")
       \/ LET a == hcall[p].args
              r == TierReadScope(hkinds.backend, backend, a.agent_id, a.group_id,
                                 a.context_id)
          IN IF r.exc # NoExc
             THEN HFinish(p, "backend.read_scope", None, r.exc)
             ELSE /\ hpc' = [hpc EXCEPT ![p] = "ready"]
                  /\ hcall' = [hcall EXCEPT
                        ![p].log = Append(hcall[p].log, "backend.read_scope"),
                        ![p].scopeB = r.result,
                        ![p].result = DictMerge(r.result, hcall[p].scopeC)]
    /\ UNCHANGED <<cache, backend>> /\ HOther

(***************************************************************************)
(* HybridCentralizedIndex (centralized_index.py): query and its            *)
(* _deduplicate_and_sort_results.  A result is a dict with an optional id, *)
(* a text and an optional score.  Ids and texts are written as strings:    *)
(* a numeral is that int, a letter that str, "None" a missing field.       *)
(* Scores are the spec's scores times ten.                                 *)
(***************************************************************************)
BackendNames == {"faiss", "elasticsearch", "pinecone"}
\* The order in which _initialize_backends (centralized_index.py:202-216)
\* registers the enabled backends.
InitOrder == <<"faiss", "elasticsearch", "pinecone">>

\* A config field is missing, empty (falsy) or holds a usable value.
FieldStates == {"missing", "empty", "ok"}
\* The fields of a backend's config that the code reads.
ConfigFields(b) ==
    CASE b = "faiss" -> {"dimension"}
      [] b = "elasticsearch" -> {"host", "index_name"}
      [] b = "pinecone" -> {"api_key", "environment", "index_name"}
\* The required_fields _initialize_backends passes to _validate_backend_config.
RequiredFields(b) ==
    CASE b = "faiss" -> <<"dimension">>
      [] b = "elasticsearch" -> <<"host">>
      [] b = "pinecone" -> <<"api_key", "environment", "index_name">>

\* The configs of one backend: not enabled (its fields are then not read), or
\* enabled with each field in some state; index_name of elasticsearch, which
\* is only subscripted, is there or not.
BackendConfigs(b) ==
    {[enabled |-> FALSE, fields |-> [f \in ConfigFields(b) |-> "missing"]]} \cup
    {[enabled |-> TRUE, fields |-> fs] :
        fs \in {g \in [ConfigFields(b) -> FieldStates] :
                   b = "elasticsearch" => g["index_name"] # "empty"}}
Configs ==
    [faiss : BackendConfigs("faiss"), elasticsearch : BackendConfigs("elasticsearch"),
     pinecone : BackendConfigs("pinecone")]

\* self.config.get(backend, {}).get("enabled", False).
Enabled(b) == config[b].enabled

\* The modules the backends' client libraries install, and the name
\* dependency_map gives _is_library_installed for each backend
\* (centralized_index.py:155-159): for pinecone the name of the distribution,
\* "pinecone-client", which is no module.
Modules == {"faiss", "elasticsearch", "pinecone"}
DependencyMap(b) ==
    CASE b = "faiss" -> "faiss"
      [] b = "elasticsearch" -> "elasticsearch"
      [] b = "pinecone" -> "pinecone-client"
\* _is_library_installed(library): importlib.import_module(library) succeeds.
IsLibraryInstalled(library, installed) == library \in installed

NoField == "none"
Outcome(exc, field, b) == [exc |-> exc, field |-> field, backend |-> b]
Fine == Outcome(NoExc, NoField, NoField)

\* _check_dependencies, centralized_index.py:151-167: ImportError for the first
\* enabled backend whose library is not installed.
RECURSIVE CheckDependencies(_, _)
CheckDependencies(names, installed) ==
    IF names = <<>> THEN Fine
    ELSE IF Enabled(Head(names)) /\ ~IsLibraryInstalled(DependencyMap(Head(names)), installed)
         THEN Outcome("ImportError", NoField, Head(names))
         ELSE CheckDependencies(Tail(names), installed)

\* centralized_index.py:199, `field not in config or not config[field]`.
FieldInvalid(state) == state # "ok"

\* _validate_backend_config, centralized_index.py:186-200: ValueError naming the
\* first required field that is missing or falsy.
RECURSIVE ValidateBackendConfig(_, _)
ValidateBackendConfig(b, required_fields) ==
    IF required_fields = <<>> THEN Fine
    ELSE IF FieldInvalid(config[b].fields[Head(required_fields)])
         THEN Outcome("ValueError", Head(required_fields), b)
         ELSE ValidateBackendConfig(b, Tail(required_fields))

\* _initialize_faiss, _initialize_elasticsearch, _initialize_pinecone
\* (centralized_index.py:219-263): the import of the module can fail
\* (ImportError), and whatever the client's constructor raises becomes a
\* RuntimeError; the fields subscripted are the validated ones.
InitializeBackend(b, installed, broken) ==
    IF b \notin installed THEN Outcome("ImportError", NoField, b)
    ELSE IF b \in broken THEN Outcome("RuntimeError", NoField, b)
    ELSE Fine

\* (mutant of Registers: only the first backend is ever registered.)
Registers_FirstOnly(b) == Enabled(b) /\ b = "faiss"

\* centralized_index.py:206/210/214, the `if ... .get("enabled", False)` tests.
Registers(b) == Enabled(b)

\* _initialize_backends, centralized_index.py:202-216: per backend in order, if
\* enabled: validate, initialize, register; the first exception ends it.
RECURSIVE InitializeBackends(_, _, _, _)
InitializeBackends(names, reg, installed, broken) ==
    IF names = <<>> THEN [registry |-> reg, outcome |-> Fine]
    ELSE LET b == Head(names) IN
         IF ~Registers(b) THEN InitializeBackends(Tail(names), reg, installed, broken)
         ELSE LET v == ValidateBackendConfig(b, RequiredFields(b))
                  i == InitializeBackend(b, installed, broken)
              IN IF v.exc # NoExc THEN [registry |-> reg, outcome |-> v]
                 ELSE IF i.exc # NoExc THEN [registry |-> reg, outcome |-> i]
                 ELSE InitializeBackends(Tail(names), Append(reg, b), installed, broken)

\* The record of the construction.  A failed one keeps the environment it ran
\* in: the modules installed and the backends whose client could not be made.
NotConstructed ==
    [pc |-> "new", exc |-> NoExc, field |-> NoField, backend |-> NoField,
     installed |-> {}, broken |-> {}]

Missing == "None"
Doc(id, text, hasScore, score) ==
    [id |-> id, text |-> text, hasScore |-> hasScore, score |-> score]

\* The results the backends can hold.
Docs ==
    {Doc("1", "a", TRUE, 5), Doc("2", "b", TRUE, 9), Doc("1", "b", TRUE, 3),
     Doc("0", "a", TRUE, 3), Doc("0", "b", FALSE, 0), Doc(Missing, "a", TRUE, -1),
     Doc("a", "b", TRUE, 3)}

Range(f) == {f[i] : i \in DOMAIN f}
Take(l, n) == SubSeq(l, 1, IF n < Len(l) THEN n ELSE Len(l))

ResultLists == UNION {[1..n -> Docs] : n \in 0..MaxResults}

\* The part of the results found that the n-th registered backend holds.
HeldBy(found, holder, n) ==
    LET at == {i \in DOMAIN found : holder[i] = n} IN
    IF at = {} THEN <<>>
    ELSE SubSeq(found, CHOOSE i \in at : \A j \in at : i <= j,
                       CHOOSE i \in at : \A j \in at : j <= i)
IndexOf(names, b) == CHOOSE n \in DOMAIN names : names[n] = b

\* Python's truth value of an id or text: None, 0 and "" are false.
Truthy(x) == x \notin {Missing, "0", ""}

\* centralized_index.py:358, result.get("id") or result.get("text").
Identifier(result) == IF Truthy(result.id) THEN result.id ELSE result.text

\* centralized_index.py:364, x.get("score", 0).
ScoreOf(result) == IF result.hasScore THEN result.score ELSE 0

\* centralized_index.py:355-361: the first result of each identifier, in order.
RECURSIVE Deduplicate(_, _)
Deduplicate(results, seen) ==
    IF results = <<>> THEN <<>>
    ELSE LET r == Head(results) IN
         IF Identifier(r) \in seen THEN Deduplicate(Tail(results), seen)
         ELSE <<r>> \o Deduplicate(Tail(results), seen \cup {Identifier(r)})

\* sorted(..., key=score, reverse=True): stable, so that among equal scores the
\* earlier result stays first.
RECURSIVE SortByScore(_)
SortByScore(results) ==
    IF results = <<>> THEN <<>>
    ELSE LET rest == SortByScore(Tail(results))
             r == Head(results)
             n == Cardinality({i \in 1..Len(rest) : ScoreOf(rest[i]) > ScoreOf(r)})
         IN SubSeq(rest, 1, n) \o <<r>> \o SubSeq(rest, n + 1, Len(rest))

\* _deduplicate_and_sort_results(results, top_k), centralized_index.py:343-367.
DeduplicateAndSortResults(results, top_k) ==
    Take(SortByScore(Deduplicate(results, {})), top_k)

\* _query_backend, centralized_index.py:313-341: self.backends.get(backend) is
\* None for a backend that is not registered; faiss and pinecone are asked for
\* top_k results, elasticsearch for its hits in the configured index; reading
\* config["elasticsearch"]["index_name"] raises KeyError when it is not there.
QueryBackend(b, top_k) ==
    IF b \notin DOMAIN answers
    THEN [results |-> <<>>, exc |-> "AttributeError"]
    ELSE
    CASE b = "faiss" -> [results |-> Take(answers[b], top_k), exc |-> NoExc]
      [] b = "pinecone" -> [results |-> Take(answers[b], top_k), exc |-> NoExc]
      [] b = "elasticsearch" ->
            IF config[b].fields["index_name"] # "missing"
            THEN [results |-> answers[b], exc |-> NoExc]
            ELSE [results |-> <<>>, exc |-> "KeyError"]

\* The loop of query over self.backends.items(): results.extend(...) per backend,
\* until a backend raises.
RECURSIVE Collect(_, _)
Collect(names, top_k) ==
    IF names = <<>> THEN [results |-> <<>>, exc |-> NoExc, log |-> <<>>]
    ELSE LET first == QueryBackend(Head(names), top_k) IN
         IF first.exc # NoExc
         THEN [results |-> <<>>, exc |-> first.exc, log |-> <<>>]
         ELSE LET rest == Collect(Tail(names), top_k) IN
              [results |-> first.results \o rest.results, exc |-> rest.exc,
               log |-> <<Head(names)>> \o rest.log]

NoBackend == "None"
\* The record of a call on the index; log lists the backends whose client
\* the call invoked.
NoQuery ==
    [op |-> "none", backend |-> NoBackend, top_k |-> 0, collected |-> <<>>,
     result |-> <<>>, exc |-> NoExc, log |-> <<>>]

\* The ways MaxResults results at most are held by the registered backends reg.
AnswersOf(reg) ==
    {[b \in Range(reg) |-> HeldBy(h[1], h[2], IndexOf(reg, b))] :
        h \in {x \in UNION {{f} \X [DOMAIN f -> DOMAIN reg] : f \in ResultLists} :
                 \A i, j \in DOMAIN x[1] : i < j => x[2][i] <= x[2][j]}}

\* (mutant of KnownBackend: every name is taken for a registered one.)
KnownBackend_Any(b, reg) == TRUE

\* `backend not in self.backends`, centralized_index.py:275 and 301.
KnownBackend(b, reg) == b \in Range(reg)

\* HybridCentralizedIndex(config), centralized_index.py:139-149, in an
\* environment where the modules installed are importable and the clients of
\* the backends broken cannot be made.  When it returns, each registered
\* backend holds some results for the query text.
IConstruct(installed, broken) ==
    /\ ipc.pc = "new"
    /\ LET d == CheckDependencies(InitOrder, installed)
           r == InitializeBackends(InitOrder, <<>>, installed, broken)
           o == IF d.exc # NoExc THEN d ELSE r.outcome
       IN IF o.exc = NoExc
          THEN /\ ipc' = [NotConstructed EXCEPT !.pc = "ready"]
               /\ registry' = r.registry
               /\ answers' \in AnswersOf(r.registry)
          ELSE /\ ipc' = [pc |-> "failed", exc |-> o.exc, field |-> o.field,
                          backend |-> o.backend, installed |-> installed,
                          broken |-> broken]
               /\ registry' = IF d.exc # NoExc THEN <<>> ELSE r.registry
               /\ answers' = <<>>
    /\ UNCHANGED <<clock, hvars, wvars, avars, rvars, config, qlast>>

IOther == UNCHANGED <<clock, hvars, wvars, avars, rvars, config, ipc, registry, answers>>

\* add_to_index(data, backend), centralized_index.py:266-282: the data go to
\* the named backend's client; elasticsearch's index name is subscripted from
\* the config before its client is called.
IAddToIndex(backend_arg) ==
    /\ ipc.pc = "ready"
    /\ qlast = NoQuery
    /\ LET exc == IF ~KnownBackend(backend_arg, registry) THEN "ValueError"
                  ELSE IF /\ backend_arg = "elasticsearch"
                          /\ config[backend_arg].fields["index_name"] = "missing"
                       THEN "KeyError"
                       ELSE NoExc
       IN qlast' = [NoQuery EXCEPT !.op = "add_to_index", !.backend = backend_arg,
                                   !.exc = exc,
                                   !.log = IF exc = NoExc THEN <<backend_arg>> ELSE <<>>]
    /\ IOther

\* query(query_text, backend, filters, top_k), centralized_index.py:284-311.
\* A query leaves the index as it was (IOther), so one call per behaviour shows
\* all there is to see: qlast records that call.
IQuery(backend_arg, top_k) ==
    /\ ipc.pc = "ready"
    /\ qlast = NoQuery
    /\ LET named == backend_arg # NoBackend
           c == IF named
                THEN IF ~KnownBackend(backend_arg, registry)
                     THEN [results |-> <<>>, exc |-> "ValueError", log |-> <<>>]
                     ELSE Collect(<<backend_arg>>, top_k)
                ELSE Collect(registry, top_k)
       IN qlast' = [op |-> "query", backend |-> backend_arg, top_k |-> top_k,
                    collected |-> c.results,
                    result |-> IF c.exc = NoExc
                               THEN DeduplicateAndSortResults(c.results, top_k)
                               ELSE <<>>,
                    exc |-> c.exc,
                    log |-> c.log]
    /\ IOther

(***************************************************************************)
(* CombinedRerankingWorkflow (rerankers/workflows.py).  A document is told *)
(* by its text (run keys its scores by doc["text"]).  Weights are counted  *)
(* in sixths and scores in halves, so that 1/n and the spec's 0.5 and 1.0  *)
(* are whole numbers and the sums are exact.                               *)
(***************************************************************************)
Texts == {"doc1", "doc2"}
WeightUnit == 6

\* The lists of documents a caller passes: the texts, each once, in some order.
DocumentLists == UNION {Listings(S) : S \in SUBSET Texts \ {{}}}

\* What a reranker returns for documents: some of them, each once, in an order
\* of its own, each with the score it gave.
Scored(text, score) == [text |-> text, score |-> score]
RerankerAnswers(documents) ==
    UNION {UNION {{[n \in DOMAIN l |-> Scored(l[n], sc[l[n]])] : l \in Listings(S)} :
                     sc \in [S -> 0..MaxScore]} :
              S \in SUBSET Range(documents)}

\* __init__, workflows.py:18-22: weights, or 1.0 / len(rerankers) for each.
DefaultWeights(n) == [i \in 1..n |-> WeightUnit \div n]
NoWeights == <<>>
WeightsOf(weights, n) == IF weights = NoWeights THEN DefaultWeights(n) ELSE weights

\* The weights a caller passes explicitly to two rerankers or to one.
WeightLists(n) ==
    IF n = 1 THEN {NoWeights, <<6>>, <<3>>}
    ELSE {NoWeights, <<3, 3>>, <<6, 0>>, <<2, 4>>}

\* workflows.py:39-42, the inner loop over one reranker's ranked_docs:
\* scores[doc["text"]] += doc["score"] * weight.
RECURSIVE AddScores(_, _, _)
AddScores(scores, ranked_docs, weight) ==
    IF ranked_docs = <<>> THEN scores
    ELSE LET doc == Head(ranked_docs) IN
         AddScores([scores EXCEPT ![doc.text] = @ + doc.score * weight],
                   Tail(ranked_docs), weight)

\* workflows.py:39-42, the loop over zip(self.rerankers, self.weights).
RECURSIVE Aggregate(_, _, _)
Aggregate(scores, answers_, weights) ==
    IF answers_ = <<>> \/ weights = <<>> THEN scores
    ELSE Aggregate(AddScores(scores, Head(answers_), Head(weights)),
                   Tail(answers_), Tail(weights))

\* (mutant of Before: of two equal scores the later one goes first.)
Before_TiesReversed(a, b) == a.score >= b.score

\* sorted(..., key=score, reverse=True) moves b in front of a only when b's
\* score is greater: a stays before b otherwise.
Before(a, b) == a.score > b.score

\* sorted(combined_results, key=lambda x: x["score"], reverse=True).
RECURSIVE SortedByScore(_)
SortedByScore(results) ==
    IF results = <<>> THEN <<>>
    ELSE LET rest == SortedByScore(Tail(results))
             r == Head(results)
             n == Cardinality({i \in 1..Len(rest) : Before(rest[i], r)})
         IN SubSeq(rest, 1, n) \o <<r>> \o SubSeq(rest, n + 1, Len(rest))

\* The keys of {doc["text"]: 0.0 for doc in documents} (workflows.py:36) in the
\* order of the dict: each text where it comes first.
DictOrder(documents) ==
    LET first == {n \in DOMAIN documents :
                     \A m \in 1..(n - 1) : documents[m] # documents[n]}
        place(n) == Cardinality({m \in first : m <= n})
    IN [k \in 1..Cardinality(first) |->
           documents[CHOOSE n \in first : place(n) = k]]

\* (mutant of Run: the weights are left out of the sum.)
Run_Unweighted(documents, answers_, weights) ==
    LET scores == Aggregate([t \in Range(documents) |-> 0], answers_,
                            [i \in DOMAIN answers_ |-> 1])
        keys == DictOrder(documents)
    IN SortedByScore([n \in DOMAIN keys |-> Scored(keys[n], scores[keys[n]])])

\* run(query, documents), workflows.py:24-46: the dict of scores is filled in
\* the order of documents and its items are listed in that order before the
\* sort.
Run(documents, answers_, weights) ==
    LET scores == Aggregate([t \in Range(documents) |-> 0], answers_,
                            WeightsOf(weights, Len(answers_)))
        keys == DictOrder(documents)
    IN SortedByScore([n \in DOMAIN keys |-> Scored(keys[n], scores[keys[n]])])

\* What a reranker returns for documents of which some can have the same
\* text: some of them, each once, in an order of its own, each with a score.
RankedAnswers(documents) ==
    UNION {UNION {{[n \in DOMAIN l |-> Scored(documents[l[n]], sc[l[n]])] :
                      l \in Listings(S)} :
                     sc \in [S -> 0..MaxScore]} :
              S \in SUBSET DOMAIN documents}

\* The calls of run with one or two documents of any texts.
RepeatedCalls ==
    UNION {UNION {{[op |-> "run", pc |-> "called", documents |-> d, answers |-> a,
                    weights |-> w, result |-> <<>>, exc |-> NoExc] :
                      w \in WeightLists(Len(a))} :
                  a \in UNION {[1..n -> RankedAnswers(d)] : n \in 1..2}} :
           d \in UNION {[1..n -> Texts] : n \in 1..2}}

\* The calls of run: one or two rerankers, what each returns, the weights.
WorkflowCalls ==
    UNION {UNION {{[op |-> "run", pc |-> "called", documents |-> d, answers |-> a,
                    weights |-> w, result |-> <<>>, exc |-> NoExc] :
                      w \in WeightLists(Len(a))} :
                  a \in UNION {[1..n -> RerankerAnswers(d)] : n \in 1..2}} :
           d \in DocumentLists}

ROther == UNCHANGED <<clock, hvars, wvars, avars, ivars>>

WorkflowRun ==
    /\ rcall.op = "run" /\ rcall.pc = "called"
    /\ rcall' = [rcall EXCEPT !.pc = "returned",
                              !.result = Run(rcall.documents, rcall.answers, rcall.weights)]
    /\ ROther

(***************************************************************************)
(* FederatedRetriever and TemporalRetriever (rerankers/temporal_federated  *)
(* .py).  A retrieved document has a text, and an id and a timestamp that  *)
(* can be missing; a timestamp is the second it names, written by          *)
(* StrfTime when the code compares it.                                     *)
(***************************************************************************)
Retrieved(id, text, timestamp) == [id |-> id, text |-> text, timestamp |-> timestamp]
NoTime == -1
RetrievedDocs ==
    {Retrieved(id, text, NoTime) : id \in {Missing, "1", "2"}, text \in {"a", "b"}}

RetrievedLists(docs) == UNION {[1..n -> docs] : n \in 0..MaxResults}

\* The ways two retrievers share a list found: the first holds its first n.
FederatedCalls ==
    UNION {{[op |-> "federated", pc |-> "called",
             lists |-> <<SubSeq(f, 1, n), SubSeq(f, n + 1, Len(f))>>,
             result |-> <<>>, exc |-> NoExc] : n \in 0..Len(f)} :
           f \in RetrievedLists(RetrievedDocs)}

\* query, temporal_federated.py:63-66: results.extend(retriever.query(query)).
RECURSIVE Concatenated(_)
Concatenated(lists) ==
    IF lists = <<>> THEN <<>> ELSE Head(lists) \o Concatenated(Tail(lists))

\* temporal_federated.py:73, result.get("id"): None for a document without id.
DocId(result) == result.id

\* _deduplicate_results, temporal_federated.py:68-77.
RECURSIVE DeduplicateResults(_, _)
DeduplicateResults(results, seen) ==
    IF results = <<>> THEN <<>>
    ELSE LET r == Head(results) IN
         IF DocId(r) \in seen THEN DeduplicateResults(Tail(results), seen)
         ELSE <<r>> \o DeduplicateResults(Tail(results), seen \cup {DocId(r)})

FederatedQuery ==
    /\ rcall.op = "federated" /\ rcall.pc = "called"
    /\ rcall' = [rcall EXCEPT !.pc = "returned",
                              !.result = DeduplicateResults(Concatenated(rcall.lists), {})]
    /\ ROther

\* The documents a base retriever returns to TemporalRetriever, and the bounds.
Seconds == 0..MaxClock
TimedDocs == {Retrieved(Missing, text, t) : text \in {"a", "b"}, t \in Seconds \cup {NoTime}}
NoBound == -1
TemporalCalls ==
    [op : {"temporal"}, pc : {"called"}, all_results : RetrievedLists(TimedDocs),
     start_time : Seconds \cup {NoBound}, end_time : Seconds \cup {NoBound},
     result : {<<>>}, exc : {NoExc}]

\* _is_within_range, temporal_federated.py:33-39: string comparisons, each made
\* only when its bound is given.
IsWithinRange(timestamp, start_time, end_time) ==
    /\ start_time = NoBound \/ ~StrLess(StrfTime(timestamp), StrfTime(start_time))
    /\ end_time = NoBound \/ ~StrLess(StrfTime(end_time), StrfTime(timestamp))

\* query, temporal_federated.py:14-31: doc[self.timestamp_field] raises
\* KeyError for a document without the field, whatever the bounds.
TemporalFilter(all_results, start_time, end_time) ==
    IF \E n \in DOMAIN all_results : all_results[n].timestamp = NoTime
    THEN [result |-> <<>>, exc |-> "KeyError"]
    ELSE [result |-> SelectSeq(all_results,
                               LAMBDA doc : IsWithinRange(doc.timestamp, start_time, end_time)),
          exc |-> NoExc]

TemporalQuery ==
    /\ rcall.op = "temporal" /\ rcall.pc = "called"
    /\ LET r == TemporalFilter(rcall.all_results, rcall.start_time, rcall.end_time) IN
       rcall' = [rcall EXCEPT !.pc = "returned", !.result = r.result, !.exc = r.exc]
    /\ ROther

(***************************************************************************)
(* MetadataReranker (rerankers/misc.py).  A document is a dict with a text *)
(* and, possibly, a "metadata" dict that holds the configured field or     *)
(* not; the field's values are numbers.                                    *)
(***************************************************************************)
ConfiguredField == "key"
MetaValues == {-1, 0, 1}
\* The metadata a document carries: no "metadata" at all (the .get default {}),
\* or a dict without the field, or one with it.
NoMetadataDict == [absent |-> TRUE]
MetaDicts == {NoMetadataDict, NoMetadata} \cup {[key |-> v] : v \in MetaValues}
MetaDocs == [text : {"a", "b"}, metadata : MetaDicts]

\* (mutant of MetadataKey: a document without the field sorts as the greatest.)
MetadataKey_MissingGreatest(doc, metadata_field) ==
    LET md == IF doc.metadata = NoMetadataDict THEN NoMetadata ELSE doc.metadata
    IN DictGet(md, metadata_field, 2)

\* misc.py:29, doc.get("metadata", {}).get(self.metadata_field, 0).
MetadataKey(doc, metadata_field) ==
    LET md == IF doc.metadata = NoMetadataDict THEN NoMetadata ELSE doc.metadata
    IN DictGet(md, metadata_field, 0)

\* sorted(documents, key=..., reverse=self.reverse), misc.py:27-31: a stable
\* sort, also when reversed: b moves in front of a only when b's key comes
\* strictly first.
RECURSIVE SortedByKey(_, _, _)
SortedByKey(documents, metadata_field, reverse) ==
    IF documents = <<>> THEN <<>>
    ELSE LET rest == SortedByKey(Tail(documents), metadata_field, reverse)
             d == Head(documents)
             k == MetadataKey(d, metadata_field)
             n == Cardinality({i \in 1..Len(rest) :
                      IF reverse THEN MetadataKey(rest[i], metadata_field) > k
                                 ELSE MetadataKey(rest[i], metadata_field) < k})
         IN SubSeq(rest, 1, n) \o <<d>> \o SubSeq(rest, n + 1, Len(rest))

\* MetadataReranker(metadata_field, reverse=True).rerank(query, documents).
Rerank(documents, metadata_field, reverse) == SortedByKey(documents, metadata_field, reverse)

RerankCalls ==
    [op : {"rerank"}, pc : {"called"}, documents : RetrievedLists(MetaDocs),
     reverse : BOOLEAN, result : {<<>>}, exc : {NoExc}]

MetadataRerank ==
    /\ rcall.op = "rerank" /\ rcall.pc = "called"
    /\ rcall' = [rcall EXCEPT !.pc = "returned",
                              !.result = Rerank(rcall.documents, ConfiguredField, rcall.reverse)]
    /\ ROther

(***************************************************************************)
(* BaseExampleAdapter (adapters/database_adapter.py): self._storage, a     *)
(* dict from id to record, kept in `store` as the records in the dict's    *)
(* order.  A record is a dict with a value and, possibly, an id.           *)
(***************************************************************************)
RecordIds == {"1", "2"}
Records == [id : RecordIds \cup {Missing}, value : {"a", "b"}]
\* The filters of a query: {}, {"id": i} or {"value": v}.
Filters == {NoMetadata} \cup {[id |-> i] : i \in RecordIds} \cup {[value |-> v] : v \in {"a", "b"}}

\* The place of key in the dict, 0 when it is not a key.
PlaceOfKey(s, key) ==
    IF \E n \in DOMAIN s : s[n].id = key
    THEN CHOOSE n \in DOMAIN s : s[n].id = key
    ELSE 0

\* (mutant of ExampleInsert: the record is added without looking for its id.)
ExampleInsert_Appended(s, data) ==
    IF data.id = Missing
    THEN [store |-> s, result |-> None, exc |-> "ValueError"]
    ELSE [store |-> Append(s, data), result |-> TRUE, exc |-> NoExc]

\* insert(data), database_adapter.py:102-115: self._storage[data['id']] = data
\* replaces the record of that id where it stands, or adds the record last.
ExampleInsert(s, data) ==
    IF data.id = Missing
    THEN [store |-> s, result |-> None, exc |-> "ValueError"]
    ELSE LET n == PlaceOfKey(s, data.id) IN
         [store |-> IF n = 0 THEN Append(s, data) ELSE [s EXCEPT ![n] = data],
          result |-> TRUE, exc |-> NoExc]

\* record.get(k) == v for every item of filters, database_adapter.py:129.
MatchesFilters(record, filters) ==
    \A k \in DOMAIN filters : record[k] # Missing /\ record[k] = filters[k]

\* query(filters), database_adapter.py:117-131.
ExampleQuery(s, filters) ==
    [store |-> s, result |-> SelectSeq(s, LAMBDA r : MatchesFilters(r, filters)),
     exc |-> NoExc]

\* delete(identifier), database_adapter.py:133-146.
ExampleDelete(s, identifier) ==
    LET n == PlaceOfKey(s, identifier) IN
    IF n = 0
    THEN [store |-> s, result |-> None, exc |-> "KeyError"]
    ELSE [store |-> SubSeq(s, 1, n - 1) \o SubSeq(s, n + 1, Len(s)),
          result |-> TRUE, exc |-> NoExc]

\* The record of a call: its argument, the storage it found (pre), what it
\* returned or raised.
ExampleCall(op, arg, r) ==
    [op |-> op, arg |-> arg, pre |-> store, result |-> r.result, exc |-> r.exc]

EInsert(data) ==
    /\ akind = "base_example"
    /\ LET r == ExampleInsert(store, data) IN
       /\ store' = r.store
       /\ alast' = ExampleCall("insert", data, r)
    /\ AOther

EQuery(filters) ==
    /\ akind = "base_example"
    /\ LET r == ExampleQuery(store, filters) IN
       /\ store' = r.store
       /\ alast' = ExampleCall("query", filters, r)
    /\ AOther

EDelete(identifier) ==
    /\ akind = "base_example"
    /\ LET r == ExampleDelete(store, identifier) IN
       /\ store' = r.store
       /\ alast' = ExampleCall("delete", identifier, r)
    /\ AOther

(***************************************************************************)
(* One call made on an adapter and the same call made through a wrapper    *)
(* of it (one caller: the lock is free).  ThreadSafeSharedMemory and       *)
(* AsyncSafeSharedMemory (memswarm/base.py) wrap a keyed adapter;          *)
(* ThreadSafeAdapter (wrappers/thread_safe_adapter.py) wraps a document    *)
(* adapter, here RedisAdapter (adapters/langswarm.py).                     *)
(***************************************************************************)
\* The stores a keyed adapter of class kind can hold after writes of plain
\* values made through it at second 0.
WrittenStores(kind, keys, values) ==
    {s \in UNION {[K -> {TierWrite(kind, EmptyStore, <<"k">>, Str(v), StrfTime(0)).store[<<"k">>]
                          : v \in values}] : K \in SUBSET keys} : TRUE}

Returns(s, result, exc) == [store |-> s, result |-> result, exc |-> exc]
NotRun == Returns(<<>>, None, "not run")

\* write(key, value[, metadata]) of a keyed adapter; gcs.py's write takes no
\* metadata.
KeyedWrite(kind, s, k, x, md, now) ==
    CASE kind = "gcs" ->
            IF md = NoArg THEN GcsWrite(s, k, x) ELSE [store |-> s, exc |-> "TypeError"]
      [] kind = "gcs_memory" ->
            GcsMemoryWrite(s, k, x, IF md = NoArg THEN NoMetadata ELSE md, now)
      [] kind = "sqlite" ->
            SqliteWrite(s, k, x, IF md = NoArg THEN NoMetadata ELSE md, now)

\* method(key, value, metadata) called on the adapter itself.
Direct(kind, s, method, k, x, md, now) ==
    CASE method = "read" -> Returns(s, TierRead(kind, s, k), NoExc)
      [] method = "write" ->
            LET r == KeyedWrite(kind, s, k, x, md, now) IN Returns(r.store, None, r.exc)
      [] method = "delete" -> Returns(TierDelete(kind, s, k).store, None, NoExc)
      [] method = "clear" -> Returns(TierClear(kind, s).store, None, NoExc)

\* base.py:58 and :98, `def write(self, key, value)`: a call with a third
\* argument does not bind.
WrapperBinds(method, md) == method = "write" => md = NoArg

\* The same call on a ThreadSafeSharedMemory or (awaited) on an
\* AsyncSafeSharedMemory around the adapter, base.py:54-68 and 94-108:
\* self.memory.<method>(key[, value]) under the lock; only read returns what
\* the adapter returned.
Through(kind, s, method, k, x, md, now) ==
    IF ~WrapperBinds(method, md)
    THEN Returns(s, None, "TypeError")
    ELSE LET r == Direct(kind, s, method, k, x, NoArg, now) IN
         Returns(r.store, IF method = "read" THEN r.result ELSE None, r.exc)

SharedMemoryWrappers == {"ThreadSafeSharedMemory", "AsyncSafeSharedMemory"}
WrappedCalls ==
    UNION {[op : {"wrapped"}, pc : {"called"}, wrapper : SharedMemoryWrappers,
            kind : {kind}, store : WrittenStores(kind, WKeys, WValues),
            method : WOps, key : WKeys, value : {Str(v) : v \in WValues},
            md : HMetadataArgs, direct : {NotRun}, through : {NotRun}] :
           kind \in KeyedKinds}

WrappedCall ==
    /\ rcall.op = "wrapped" /\ rcall.pc = "called"
    /\ rcall' = [rcall EXCEPT
          !.pc = "returned",
          !.direct = Direct(rcall.kind, rcall.store, rcall.method, rcall.key,
                            rcall.value, rcall.md, StrfTime(clock)),
          !.through = Through(rcall.kind, rcall.store, rcall.method, rcall.key,
                              rcall.value, rcall.md, StrfTime(clock))]
    /\ ROther

\* The second argument of an adapter's query: none, a dict of filters, or a
\* number.
NoFilters == [is |-> "None"]
FiltersDict(d) == [is |-> "dict", items |-> d]
Number(n) == [is |-> "int", value |-> n]
DefaultTopK == 5

\* What RedisAdapter holds: under each key the text and the metadata of a
\* document (add_documents, langswarm.py:108-113).
StoredDocs == [value : {"a", "b"}, metadata : {NoMetadata, [agent |-> "x"]}]
DocStores == UNION {[K -> StoredDocs] : K \in SUBSET {"d1", "d2"}}
\* query.lower() in entry["value"].lower(), for texts of one letter and the
\* queries "" and one letter.
TextHas(value, query) == query = "" \/ query = value

\* RedisAdapter.query(query, filters), langswarm.py:115-126: the entries whose
\* text has the query and whose metadata equal the filters; filters.items() is
\* evaluated, for a filters that is truthy, at the first entry whose text has
\* the query, and raises AttributeError when filters is a number.
RedisAdapterQuery(s, query, filters) ==
    LET textual == {k \in DOMAIN s : TextHas(s[k].value, query)} IN
    IF filters.is = "int" /\ filters.value # 0 /\ textual # {}
    THEN Returns(s, None, "AttributeError")
    ELSE Returns(s,
                 {[key |-> k, value |-> s[k].value, metadata |-> s[k].metadata] :
                     k \in {t \in textual :
                              filters.is = "dict" =>
                                  \A f \in DOMAIN filters.items :
                                      DictGet(s[t].metadata, f, "None") = filters.items[f]}},
                 NoExc)

\* The forms of a query call: query(q), query(q, f), query(q, filters=f).
QueryForms == {"plain", "positional", "keyword"}

\* The call made on the adapter itself.
DirectQuery(s, query, form, f) ==
    RedisAdapterQuery(s, query, IF form = "plain" THEN NoFilters ELSE FiltersDict(f))

\* ThreadSafeAdapter.query(query, top_k=5), thread_safe_adapter.py:24-36:
\* `return self.adapter.query(query, top_k)`.  A second positional argument
\* is bound to top_k; there is no parameter named filters.
ThroughQuery(s, query, form, f) ==
    CASE form = "plain" -> RedisAdapterQuery(s, query, Number(DefaultTopK))
      [] form = "positional" -> RedisAdapterQuery(s, query, FiltersDict(f))
      [] form = "keyword" -> Returns(s, None, "TypeError")

WrappedQueries ==
    [op : {"wrapped_query"}, pc : {"called"}, wrapper : {"ThreadSafeAdapter"},
     store : DocStores, query : {"", "a"}, form : QueryForms,
     filters : {[agent |-> "x"]}, direct : {NotRun}, through : {NotRun}]

WrappedQuery ==
    /\ rcall.op = "wrapped_query" /\ rcall.pc = "called"
    /\ rcall' = [rcall EXCEPT
          !.pc = "returned",
          !.direct = DirectQuery(rcall.store, rcall.query, rcall.form, rcall.filters),
          !.through = ThroughQuery(rcall.store, rcall.query, rcall.form, rcall.filters)]
    /\ ROther

(***************************************************************************)
(* clear() seen from the physical backend: the blobs of a bucket, the rows *)
(* of a database file, the keys of a redis database.  A name is the pair   *)
(* of the space an entry lies in (the blob's prefix, the row's table; in   *)
(* redis, which has neither, the adapter that wrote the key) and its key.  *)
(***************************************************************************)
OwnSpace == "shared_memory/"
OtherSpace == "other/"
PhysicalNames == {OwnSpace, OtherSpace} \X {"1", "2"}
PhysicalStores == UNION {[N -> {"a"}] : N \in SUBSET PhysicalNames}
ClearKinds == {"gcs", "gcs_memory", "sqlite", "redis"}

Without(s, names) == [n \in DOMAIN s \ names |-> s[n]]

\* redis_memory.py:129-140, self.client.flushdb(): every key of the database.
RedisClear(s) == Without(s, DOMAIN s)

\* gcs.py:67-73 and gcs_memory.py:112-125: blob.delete() for each blob of
\* list_blobs(self.bucket, prefix=self.prefix).
GcsClear(s, prefix) == Without(s, {n \in DOMAIN s : n[1] = prefix})

\* sqlite.py:139-153, DELETE FROM memory: every row of the adapter's table.
SqliteClear(s, table) == Without(s, {n \in DOMAIN s : n[1] = table})

PhysicalClear(kind, s) ==
    CASE kind \in {"gcs", "gcs_memory"} -> GcsClear(s, OwnSpace)
      [] kind = "sqlite" -> SqliteClear(s, OwnSpace)
      [] kind = "redis" -> RedisClear(s)

ClearCalls ==
    [op : {"clear"}, pc : {"called"}, kind : ClearKinds, store : PhysicalStores,
     result : {<<>>}, exc : {NoExc}]

SharedClear ==
    /\ rcall.op = "clear" /\ rcall.pc = "called"
    /\ rcall' = [rcall EXCEPT !.pc = "returned",
                              !.result = PhysicalClear(rcall.kind, rcall.store)]
    /\ ROther

(***************************************************************************)
(* similarity_search(query, top_k) on the shared memories of memswarm.     *)
(***************************************************************************)
SimilarityKinds ==
    {"in_memory", "gcs", "gcs_memory", "sqlite", "redis", "ThreadSafeSharedMemory"}

\* The adapter that can search: InMemorySharedMemory where sklearn and
\* sentence_transformers are installed (in_memory.py:3-8 sets cosine_similarity
\* and SentenceTransformer to None where they are not).
CanSearch(kind, installed) == kind = "in_memory" /\ installed

\* similarity_search(query, top_k=5): in_memory.py:114-124 ranks
\* self.embeddings when the libraries are there and returns [] when they are
\* not; gcs.py:75-76 and base.py:70-82 raise NotImplementedError; the other
\* classes define no such method.
SimilaritySearch(kind, installed, embeddings, top_k) ==
    CASE kind = "in_memory" ->
            IF installed THEN [result |-> Take(embeddings, top_k), exc |-> NoExc]
            ELSE [result |-> <<>>, exc |-> NoExc]
      [] kind \in {"gcs", "ThreadSafeSharedMemory"} ->
            [result |-> <<>>, exc |-> "NotImplementedError"]
      [] OTHER -> [result |-> <<>>, exc |-> "AttributeError"]

\* The keys of self.embeddings, already in the order of their similarity.
SimilarityCalls ==
    [op : {"similarity_search"}, pc : {"called"}, kind : SimilarityKinds,
     installed : BOOLEAN, embeddings : {<<>>, <<"1">>, <<"2", "1">>},
     top_k : 1..MaxResults, result : {<<>>}, exc : {NoExc}]

SimilaritySearchCall ==
    /\ rcall.op = "similarity_search" /\ rcall.pc = "called"
    /\ LET r == SimilaritySearch(rcall.kind, rcall.installed, rcall.embeddings,
                                 rcall.top_k) IN
       rcall' = [rcall EXCEPT !.pc = "returned", !.result = r.result, !.exc = r.exc]
    /\ ROther

(***************************************************************************)
(* CentralizedIndex (centralized_index.py:13-128).                         *)
(* The index is the list of its documents, a document being                *)
(* its text and its extra_info dict; here the clock counts whole days.     *)
(* A dict is the sequence of its (key, value) pairs in insertion order,    *)
(* a value a string or the isoformat of a day.                             *)
(***************************************************************************)
StrValue(s) == [time |-> FALSE, s |-> s, day |-> 0]
\* datetime.isoformat() of day d; datetime.fromisoformat(v) gives v.day back.
IsoFormat(d) == [time |-> TRUE, s |-> "", day |-> d]
FromIsoFormat(v) == v.day

DictKeys(d) == {d[i][1] : i \in DOMAIN d}
DictValue(d, key) == d[CHOOSE i \in DOMAIN d : d[i][1] = key][2]
\* d[key] = value: a key the dict has keeps its place.
DictSet(d, key, value) ==
    IF key \in DictKeys(d)
    THEN [i \in DOMAIN d |-> IF d[i][1] = key THEN <<key, value>> ELSE d[i]]
    ELSE Append(d, <<key, value>>)

\* str(key).lower() for the keys used here.
Lower(key) ==
    CASE key = "Source" -> "source"
      [] key = "Timestamp" -> "timestamp"
      [] OTHER -> key

\* What a caller passes as a document's metadata: nothing, a dict, or
\* something that is no dict (a list).
NoMetadataKey == [kind |-> "absent", items |-> <<>>]
ADict(items) == [kind |-> "dict", items |-> items]
NotADict == [kind |-> "list", items |-> <<>>]

\* {str(key).lower(): value for key, value in metadata.items()},
\* centralized_index.py:74.
RECURSIVE NormalizedItems(_)
NormalizedItems(items) ==
    IF items = <<>> THEN <<>>
    ELSE LET n == Len(items)
             last == items[n]
         IN DictSet(NormalizedItems(SubSeq(items, 1, n - 1)), Lower(last[1]), last[2])

\* _validate_and_normalize_metadata, centralized_index.py:61-74.
ValidateAndNormalizeMetadata(metadata) ==
    IF metadata.kind # "dict"
    THEN [result |-> <<>>, exc |-> "ValueError"]
    ELSE [result |-> NormalizedItems(metadata.items), exc |-> NoExc]

\* doc.get("metadata", {}), centralized_index.py:91.
MetadataOf(doc) == IF doc.metadata.kind = "absent" THEN ADict(<<>>) ELSE doc.metadata

\* The Document add_documents builds of doc (centralized_index.py:89-95):
\* {**normalized, "timestamp": datetime.now().isoformat()}.
BuiltDocument(doc, now) ==
    LET m == ValidateAndNormalizeMetadata(MetadataOf(doc)) IN
    [document |-> [text |-> doc.text,
                   extra_info |-> DictSet(m.result, "timestamp", IsoFormat(now))],
     exc |-> m.exc]

\* The list comprehension of add_documents: the first document that raises
\* ends it.
RECURSIVE BuiltDocuments(_, _)
BuiltDocuments(docs, now) ==
    IF docs = <<>> THEN [documents |-> <<>>, exc |-> NoExc]
    ELSE LET b == BuiltDocument(Head(docs), now)
             rest == BuiltDocuments(Tail(docs), now)
         IN IF b.exc # NoExc THEN [documents |-> <<>>, exc |-> b.exc]
            ELSE IF rest.exc # NoExc THEN rest
            ELSE [documents |-> <<b.document>> \o rest.documents, exc |-> NoExc]

\* centralized_index.py:51-55: a document stays when it has a timestamp and
\* (now - doc_time) <= timedelta(days=self.expiration_days).
StaysValid(document, now, expiration_days) ==
    /\ "timestamp" \in DictKeys(document.extra_info)
    /\ now - FromIsoFormat(DictValue(document.extra_info, "timestamp")) <= expiration_days

\* _clean_expired_documents, centralized_index.py:41-59: the documents of the
\* index after it.
CleanExpiredDocuments(index, now) ==
    IF ~index.available \/ ~index.expiration.set
    THEN index.documents
    ELSE SelectSeq(index.documents,
                   LAMBDA d : StaysValid(d, now, index.expiration.days))

CentralCall(op, docs, cleaned, exc) ==
    [op |-> op, docs |-> docs, pre |-> store.documents, cleaned |-> cleaned,
     now |-> clock, exc |-> exc]

\* purge_expired_documents, centralized_index.py:124-128.
CPurge ==
    /\ akind = "centralized_index"
    /\ LET cleaned == CleanExpiredDocuments(store, clock) IN
       /\ store' = [store EXCEPT !.documents = cleaned]
       /\ alast' = CentralCall("purge", <<>>, cleaned, NoExc)
    /\ AOther

\* add_documents(docs), centralized_index.py:76-96.
CAddDocuments(docs) ==
    /\ akind = "centralized_index"
    /\ Len(store.documents) + Len(docs) <= MaxEntries
    /\ IF ~store.available
       THEN /\ alast' = CentralCall("add_documents", docs, store.documents, NoExc)
            /\ UNCHANGED store
       ELSE LET cleaned == CleanExpiredDocuments(store, clock)
                built == BuiltDocuments(docs, clock)
            IN /\ store' = [store EXCEPT !.documents =
                               IF built.exc = NoExc THEN cleaned \o built.documents
                               ELSE cleaned]
               /\ alast' = CentralCall("add_documents", docs, cleaned, built.exc)
    /\ AOther

\* query(query_text), centralized_index.py:98-121: the cleanup comes first.
CQuery ==
    /\ akind = "centralized_index"
    /\ LET cleaned == CleanExpiredDocuments(store, clock) IN
       /\ store' = [store EXCEPT !.documents = cleaned]
       /\ alast' = CentralCall("query", <<>>, cleaned, NoExc)
    /\ AOther

Tick ==
    /\ clock < MaxClock
    /\ clock' = clock + 1
    /\ UNCHANGED <<hvars, wvars, avars, ivars, rvars>>

(***************************************************************************)
(* Initial values of each component.                                       *)
(***************************************************************************)
\* HybridSharedMemory(cache, backend) over two adapters: the cache starts empty,
\* the durable backend holds what earlier runs wrote to it.
HInit(callers) ==
    /\ hkinds \in [cache : KeyedKinds, backend : KeyedKinds, faulty : {TRUE}]
    /\ cache = EmptyStore
    /\ backend \in WrittenStores(hkinds.backend, HKeys, HValues)
    /\ hpc = [p \in Procs |-> IF p \in callers THEN "ready" ELSE "off"]
    /\ hcall = [p \in Procs |-> NoCall]

HIdle ==
    /\ hkinds = <<>>
    /\ cache = EmptyStore
    /\ backend = EmptyStore
    /\ hpc = <<>>
    /\ hcall = <<>>

\* A wrapper around a GCSSharedMemory (gcs.py) that holds nothing yet.
WInit ==
    /\ wkind \in WrapperKinds
    /\ lockOwner = Nobody
    /\ wpc = [p \in Procs |-> "ready"]
    /\ wcall = [p \in Procs |-> NoWCall]
    /\ wmem = EmptyStore

WIdle ==
    /\ wkind = "none"
    /\ lockOwner = Nobody
    /\ wpc = <<>>
    /\ wcall = <<>>
    /\ wmem = EmptyStore

\* A freshly built adapter over an empty backend.
AInit ==
    /\ akind \in AdapterKinds
    /\ store = EmptyStore
    /\ alast = NoACall

AIdle ==
    /\ akind = "none"
    /\ store = EmptyStore
    /\ alast = <<>>

\* Before the index is constructed: the config it will be given.
IInit ==
    /\ config \in Configs
    /\ ipc = NotConstructed
    /\ registry = <<>>
    /\ answers = <<>>
    /\ qlast = NoQuery

IIdle ==
    /\ config = <<>>
    /\ ipc = <<>>
    /\ registry = <<>>
    /\ answers = <<>>
    /\ qlast = <<>>

\* A call of a workflow or of a retriever, about to be made.
RInit == rcall \in WorkflowCalls \cup FederatedCalls \cup TemporalCalls \cup RerankCalls

RIdle == rcall = <<>>

(***************************************************************************)
(* HybridSharedMemory used by one caller.                                  *)
(***************************************************************************)
HybridNext ==
    \/ Tick
    \/ \E p \in Procs :
          \/ \E k \in HKeys : HReadCall(p, k)
          \/ \E k \in HWriteKeys : HDeleteCall(p, k)
          \/ \E k \in HWriteKeys, v \in HValues, md \in HMetadataArgs : HWriteCall(p, k, v, md)
          \/ HClearCall(p)
          \/ HReadCache(p) \/ HReadBackend(p) \/ HReadWriteBack(p)
          \/ HWriteCache(p) \/ HWriteBackend(p)
          \/ HDeleteCache(p) \/ HDeleteBackend(p)
          \/ HClearCache(p) \/ HClearBackend(p)

InitHybrid == clock = 0 /\ HInit({"p1"}) /\ WIdle /\ AIdle /\ IIdle /\ RIdle

SpecHybrid == InitHybrid /\ [][HybridNext]_vars

(***************************************************************************)
(* HybridSharedMemory used by two concurrent callers, over tiers that do   *)
(* not fail, the durable backend being gcs.py's adapter (whose read        *)
(* returns the value as it was written, so that a write-back stores that   *)
(* value).  Each tier call is atomic; the calls of the two callers         *)
(* interleave.                                                             *)
(***************************************************************************)
RaceNext ==
    \E p \in Procs :
        \/ \E k \in HWriteKeys : HReadCall(p, k)
        \/ \E k \in HWriteKeys : HDeleteCall(p, k)
        \/ \E k \in HWriteKeys, v \in HValues : HWriteCall(p, k, v, NoArg)
        \/ HReadCache(p) \/ HReadBackend(p) \/ HReadWriteBack(p)
        \/ HWriteCache(p) \/ HWriteBackend(p)
        \/ HDeleteCache(p) \/ HDeleteBackend(p)

InitRace ==
    /\ clock = 0 /\ WIdle /\ AIdle /\ IIdle /\ RIdle
    /\ hkinds \in [cache : KeyedKinds, backend : {"gcs"}, faulty : {FALSE}]
    /\ cache = EmptyStore
    /\ backend \in WrittenStores(hkinds.backend, HWriteKeys, HValues)
    /\ hpc = [p \in Procs |-> "ready"]
    /\ hcall = [p \in Procs |-> NoCall]

SpecRace == InitRace /\ [][RaceNext]_vars

(***************************************************************************)
(* HybridSharedMemory over a context adapter and a RedisSharedMemory, both  *)
(* empty at first, used by one caller through write_scope and read_scope   *)
(* while the two tiers hold fewer than MaxEntries keys between them.       *)
(***************************************************************************)
ScopeNext ==
    \/ Tick
    \/ \E p \in Procs :
          \/ \E md \in ScopeMetadataArgs, ctx \in ScopeContexts :
                HWriteScopeCall(p, "a", md, ctx)
          \/ \E agent_id \in {"x", NoId}, group_id \in GroupIds \cup {NoId},
                ctx \in {<<"c">>, NoContext} :
                HReadScopeCall(p, agent_id, group_id, ctx)
          \/ HWriteScopeCache(p) \/ HWriteScopeBackend(p)
          \/ HReadScopeCache(p) \/ HReadScopeBackend(p)

InitScope ==
    /\ clock = 0 /\ WIdle /\ AIdle /\ IIdle /\ RIdle
    /\ hkinds \in [cache : ContextKinds, backend : {"redis"}, faulty : {TRUE}]
    /\ cache = EmptyStore
    /\ backend = EmptyStore
    /\ hpc = [p \in Procs |-> IF p = "p1" THEN "ready" ELSE "off"]
    /\ hcall = [p \in Procs |-> NoCall]

SpecScope == InitScope /\ [][ScopeNext]_vars

(***************************************************************************)
(* One wrapper instance used by two concurrent callers.                    *)
(***************************************************************************)
LockNext ==
    \E p \in Procs :
        \/ \E op \in WOps, k \in WKeys, v \in WValues : WCall(p, op, k, v)
        \/ WAcquire(p)
        \/ WAdapterRun(p)
        \/ WExit(p)

InitLock == clock = 0 /\ HIdle /\ WInit /\ AIdle /\ IIdle /\ RIdle

SpecLock == InitLock /\ [][LockNext]_vars

(***************************************************************************)
(* One ThreadSafeAdapter used by two threads, through the methods the      *)
(* wrapper defines and through those it delegates.                         *)
(***************************************************************************)
DelegateNext ==
    \/ LockNext
    \/ \E p \in Procs :
          \/ \E op \in DelegatedOps : WDelegated(p, op)
          \/ WDelegatedRun(p)

InitDelegate == InitLock /\ wkind = "ThreadSafeAdapter"

SpecDelegate == InitDelegate /\ [][DelegateNext]_vars

(***************************************************************************)
(* One adapter used by one caller.                                         *)
(***************************************************************************)
AdapterNext ==
    \/ Tick
    \/ \E k \in AKeys, v \in AValues, md \in AMetadataArgs \cup {NoArg} : AWrite(k, v, md)
    \/ \E k \in AKeys : ARead(k)
    \/ \E v \in ContextValues, md \in AMetadataArgs, ctx \in Contexts : AContextWrite(v, md, ctx)
    \/ \E v \in ContextValues, md \in AMetadataArgs, ctx \in Contexts : AWriteScope(v, md, ctx)
    \/ \E ctx \in Contexts : AReadContext(ctx)
    \/ \E k \in (IF akind \in KeyedKinds THEN AKeys ELSE ContextKeys) : ADelete(k)
    \/ AClear

InitAdapter == clock = 0 /\ HIdle /\ WIdle /\ AInit /\ IIdle /\ RIdle

SpecAdapter == InitAdapter /\ [][AdapterNext]_vars

(***************************************************************************)
(* A HybridCentralizedIndex that is constructed and then used.             *)
(***************************************************************************)
\* The backends whose client can fail to be made: one at most at a time.
Breakable == {{}, {"faiss"}, {"elasticsearch"}}

IndexNext ==
    \/ \E installed \in SUBSET Modules, broken \in Breakable :
          IConstruct(installed, broken)
    \/ \E backend_arg \in BackendNames : IAddToIndex(backend_arg)
    \/ \E backend_arg \in BackendNames \cup {NoBackend}, top_k \in 1..MaxResults :
          IQuery(backend_arg, top_k)

InitIndex == clock = 0 /\ HIdle /\ WIdle /\ AIdle /\ IInit /\ RIdle

SpecIndex == InitIndex /\ [][IndexNext]_vars

(***************************************************************************)
(* One call of a reranking workflow or of a retriever.                     *)
(***************************************************************************)
RetrievalNext ==
    \/ WorkflowRun
    \/ FederatedQuery
    \/ TemporalQuery
    \/ MetadataRerank

InitRetrieval == clock = 0 /\ HIdle /\ WIdle /\ AIdle /\ IIdle /\ RInit

SpecRetrieval == InitRetrieval /\ [][RetrievalNext]_vars

(***************************************************************************)
(* One call of the reranking workflow with documents that can share a text.*)
(***************************************************************************)
RepeatedNext == WorkflowRun

InitRepeated ==
    /\ clock = 0 /\ HIdle /\ WIdle /\ AIdle /\ IIdle
    /\ rcall \in RepeatedCalls

SpecRepeated == InitRepeated /\ [][RepeatedNext]_vars

(***************************************************************************)
(* One BaseExampleAdapter, empty at first, used by one caller.             *)
(***************************************************************************)
ExampleNext ==
    \/ \E data \in Records : EInsert(data)
    \/ \E filters \in Filters : EQuery(filters)
    \/ \E identifier \in RecordIds : EDelete(identifier)

InitExample ==
    /\ clock = 0 /\ HIdle /\ WIdle /\ IIdle /\ RIdle
    /\ akind = "base_example"
    /\ store = <<>>
    /\ alast = [op |-> "none", arg |-> <<>>, pre |-> <<>>, result |-> None, exc |-> NoExc]

SpecExample == InitExample /\ [][ExampleNext]_vars

(***************************************************************************)
(* One CentralizedIndex, built over the index file it finds (which holds   *)
(* no document, one stamped a day ago, one stamped today or one that       *)
(* carries no timestamp), with or without expiration_days, and with or     *)
(* without llama_index (without it the index holds nothing).               *)
(***************************************************************************)
CentralMetadata ==
    {NoMetadataKey, NotADict, ADict(<<>>),
     ADict(<<<<"Source", StrValue("x")>>>>),
     ADict(<<<<"Source", StrValue("x")>>, <<"source", StrValue("y")>>>>),
     ADict(<<<<"timestamp", IsoFormat(-1)>>>>),
     ADict(<<<<"Timestamp", IsoFormat(-1)>>>>)}
CentralDocs == [text : {"a"}, metadata : CentralMetadata]
CentralDocLists == UNION {[1..n -> CentralDocs] : n \in 1..2}

LoadedDocuments ==
    {<<>>,
     <<[text |-> "b", extra_info |-> <<<<"timestamp", IsoFormat(-1)>>>>]>>,
     <<[text |-> "b", extra_info |-> <<<<"timestamp", IsoFormat(0)>>>>]>>,
     <<[text |-> "b", extra_info |-> <<<<"source", StrValue("x")>>>>]>>}

CentralNext ==
    \/ Tick
    \/ CPurge
    \/ CQuery
    \/ \E docs \in CentralDocLists : CAddDocuments(docs)

InitCentral ==
    /\ clock = 0 /\ HIdle /\ WIdle /\ IIdle /\ RIdle
    /\ akind = "centralized_index"
    /\ \E expiration \in {[set |-> FALSE, days |-> 0]}
                            \cup {[set |-> TRUE, days |-> n] : n \in 0..1},
          documents \in LoadedDocuments, available \in BOOLEAN :
          /\ ~available => documents = <<>>
          /\ store = [available |-> available, expiration |-> expiration,
                      documents |-> documents]
    /\ alast = [op |-> "none", docs |-> <<>>, pre |-> <<>>, cleaned |-> <<>>,
                now |-> 0, exc |-> NoExc]

SpecCentral == InitCentral /\ [][CentralNext]_vars

(***************************************************************************)
(* One call of the adapter contract.                                       *)
(***************************************************************************)
ContractNext ==
    \/ WrappedCall
    \/ WrappedQuery
    \/ SharedClear
    \/ SimilaritySearchCall

InitContract ==
    /\ clock = 0 /\ HIdle /\ WIdle /\ AIdle /\ IIdle
    /\ rcall \in WrappedCalls \cup WrappedQueries \cup ClearCalls \cup SimilarityCalls

SpecContract == InitContract /\ [][ContractNext]_vars

(***************************************************************************)
(* Properties of the lock wrappers (under SpecLock).                       *)
(***************************************************************************)
InAdapter == {p \in Procs : wpc[p] = "inside"}
InWith == {p \in Procs : wpc[p] \in {"inside", "exit"}}

\* C5: at most one caller is executing inside the wrapped adapter at any time,
\* and whoever is inside the with statement holds the lock.
C5_OneCallerInside ==
    /\ Cardinality(InAdapter) <= 1
    /\ Cardinality(InWith) <= 1
    /\ \A p \in InWith : lockOwner = p

\* One caller is inside the adapter while the other waits for the lock.
C5_Witness ==
    \E p, q \in Procs :
        /\ wkind = "ThreadSafeSharedMemory"
        /\ wpc[p] = "inside"
        /\ wpc[q] = "acquire"

\* C6: a wrapper call in which the wrapped adapter raised has released the lock
\* when it ends and hands the caller the exception the adapter raised; the lock is
\* held only while some caller is inside the with statement, so a later call on
\* the wrapper can take it.
C6_LockReleasedOnError ==
    /\ \A p \in Procs :
          (wpc[p] \in {"ready", "acquire"} /\ wcall[p].op # "none") =>
              /\ lockOwner # p
              /\ wcall[p].exc = wcall[p].raised
    /\ (InWith = {}) => lockOwner = Nobody

\* After a call of p ended with the adapter's error, q has taken the lock.
C6_Witness ==
    \E p, q \in Procs :
        /\ wpc[p] = "ready"
        /\ wcall[p].exc = "ConnectionError"
        /\ wpc[q] = "inside"
        /\ lockOwner = q

(***************************************************************************)
(* Properties of HybridSharedMemory (under SpecHybrid: one caller).        *)
(***************************************************************************)
HDone(p, op) == hpc[p] = "ready" /\ hcall[p].op = op
CacheRead(k) == TierRead(hkinds.cache, cache, k)
BackendRead(k) == TierRead(hkinds.backend, backend, k)

\* C1: when the cache held no entry for k and the backend held k -> v, a
\* hybrid.read(k) that met no unreachable tier returns v, and once it has
\* returned cache.read(k) returns v too (v being the value the backend holds:
\* the stored string, or the "value" of the stored entry).
C1_WriteBackOnMiss ==
    \A p \in Procs :
        (/\ HDone(p, "read")
         /\ hcall[p].preC = None
         /\ hcall[p].preB # None
         /\ hcall[p].raised # "ConnectionError")
        => /\ hcall[p].exc = NoExc
           /\ ValueOf(hcall[p].result) = ValueOf(hcall[p].preB)
           /\ ValueOf(CacheRead(hcall[p].key)) = ValueOf(hcall[p].preB)

\* C2: when the cache holds an entry for k (and can be read), hybrid.read(k)
\* returns that entry and the cache read is the only tier call it makes: the
\* backend is neither read nor written, whatever it holds for k.
C2_CacheHitSkipsBackend ==
    \A p \in Procs :
        (/\ HDone(p, "read")
         /\ hcall[p].preC # None
         /\ hcall[p].raised # "ConnectionError")
        => /\ hcall[p].exc = NoExc
           /\ hcall[p].result = hcall[p].preC
           /\ hcall[p].log = <<"cache.read">>
           /\ Lookup(backend, hcall[p].key) = hcall[p].preB

\* A read served by the cache while the backend holds another value for the key.
C2_Witness ==
    \E p \in Procs :
        /\ HDone(p, "read")
        /\ hcall[p].exc = NoExc
        /\ hcall[p].preC # None
        /\ hcall[p].preB # None
        /\ ValueOf(hcall[p].preB) # ValueOf(hcall[p].preC)
        /\ hcall[p].result = hcall[p].preC

\* C3: a hybrid.write(key, value[, metadata]) during which no tier was
\* unreachable returns normally, leaves value under key in both tiers, with the
\* metadata given, and has written the cache before the backend.
C3_WriteReachesBothTiers ==
    \A p \in Procs :
        (/\ HDone(p, "write")
         /\ hcall[p].raised # "ConnectionError")
        => /\ hcall[p].exc = NoExc
           /\ ValueOf(CacheRead(hcall[p].key)) = hcall[p].value
           /\ ValueOf(BackendRead(hcall[p].key)) = hcall[p].value
           /\ hcall[p].log = <<"cache.write", "backend.write">>
           /\ (hcall[p].md # NoArg /\ IsEntry(BackendRead(hcall[p].key))) =>
                  MetadataField(BackendRead(hcall[p].key)).agent = hcall[p].md.agent

\* C4: when the cache write of hybrid.write(k, v) succeeded and the backend's
\* write raised, the caller gets that error, the cache holds v for k and the
\* backend holds for k what it held before the call.
C4_BackendFailureSurfaces ==
    \A p \in Procs :
        (/\ HDone(p, "write")
         /\ hcall[p].log = <<"cache.write", "backend.write">>
         /\ hcall[p].raised # NoExc)
        => /\ hcall[p].exc = hcall[p].raised
           /\ ValueOf(CacheRead(hcall[p].key)) = hcall[p].value
           /\ Lookup(backend, hcall[p].key) = hcall[p].preB

\* A write whose backend call failed over a backend that held another value.
C4_Witness ==
    \E p \in Procs :
        /\ HDone(p, "write")
        /\ hcall[p].log = <<"cache.write", "backend.write">>
        /\ hcall[p].raised = "ConnectionError"
        /\ hcall[p].preB # None
        /\ ValueOf(hcall[p].preB) # hcall[p].value

\* C20: a hybrid.delete(k) that returns normally has called the cache's delete
\* and then the backend's, and neither tier holds k; a hybrid.clear() that
\* returns normally has cleared the cache and then the backend, and both tiers
\* are empty; a hybrid.read(k) that follows either (and meets no unreachable
\* tier) returns None; and the error a tier's delete or clear raised is the
\* error the caller of delete or clear gets.
C20_DeleteClearFanOut ==
    \A p \in Procs :
        /\ (HDone(p, "delete") /\ hcall[p].exc = NoExc)
           => /\ hcall[p].log = <<"cache.delete", "backend.delete">>
              /\ ~Holds(cache, hcall[p].key)
              /\ ~Holds(backend, hcall[p].key)
        /\ (HDone(p, "clear") /\ hcall[p].exc = NoExc)
           => /\ hcall[p].log = <<"cache.clear", "backend.clear">>
              /\ cache = EmptyStore
              /\ backend = EmptyStore
        /\ (/\ HDone(p, "read")
            /\ hcall[p].after \in {"delete", "clear"}
            /\ hcall[p].raised # "ConnectionError")
           => /\ hcall[p].exc = NoExc
              /\ hcall[p].result = None
        /\ ((HDone(p, "delete") \/ HDone(p, "clear")) /\ hcall[p].raised # NoExc)
           => hcall[p].exc = hcall[p].raised

\* A delete of a key both tiers held has returned normally.
C20_Witness ==
    \E p \in Procs :
        /\ HDone(p, "delete")
        /\ hcall[p].exc = NoExc
        /\ hcall[p].preC # None
        /\ hcall[p].preB # None

(***************************************************************************)
(* Properties of the adapters (under SpecAdapter).                         *)
(***************************************************************************)

WrittenAt(ctx, t) == ContextKey(ctx, StrfTime(t))

\* C8: read_context(C) lists every entry written to context C, and lists an
\* entry written at t1 before an entry written at t2 exactly when t1 < t2,
\* in whatever order the store gave the keys.
C8_ContextOrder ==
    alast.op = "read_context" =>
        LET l == alast.listing
            C == alast.ctx
        IN /\ \A t \in 0..MaxClock :
                 Holds(store, WrittenAt(C, t)) => \E i \in DOMAIN l : l[i] = WrittenAt(C, t)
           /\ \A i, j \in DOMAIN l : \A t1, t2 \in 0..MaxClock :
                 (l[i] = WrittenAt(C, t1) /\ l[j] = WrittenAt(C, t2)) =>
                     (i < j <=> t1 < t2)

\* read_context has listed two entries of its context, written at two times.
C8_Witness ==
    /\ alast.op = "read_context"
    /\ \E i, j \in DOMAIN alast.listing :
          /\ i < j
          /\ alast.listing[i] = WrittenAt(alast.ctx, 0)
          /\ alast.listing[j] = WrittenAt(alast.ctx, 1)

\* C9: every stored entry has metadata with a timestamp, and after a write
\* (write, context write or write_scope) that returned normally the entry
\* written carries the caller's timestamp when the metadata had one, the time
\* of the write otherwise.
C9_TimestampAlwaysStored ==
    /\ \A k \in DOMAIN store :
          /\ IsEntry(store[k])
          /\ "timestamp" \in DOMAIN MetadataField(store[k])
    /\ (alast.op \in {"write", "context_write", "write_scope"} /\ alast.exc = NoExc) =>
          /\ Holds(store, alast.key)
          /\ IsEntry(store[alast.key])
          /\ MetadataField(store[alast.key]).timestamp =
                IF "timestamp" \in DOMAIN alast.md THEN alast.md.timestamp
                ELSE StrfTime(alast.now)

(***************************************************************************)
(* Properties of HybridCentralizedIndex.query (under SpecIndex).           *)
(***************************************************************************)
HasId(result) == result.id # Missing

\* The first result of the list that has the id of results[i].
FirstOfId(results, i) ==
    /\ HasId(results[i])
    /\ \A j \in 1..(i - 1) : results[j].id # results[i].id

\* The result lists of the backends names, one after the other.
RECURSIVE Gathered(_, _)
Gathered(names, top_k) ==
    IF names = <<>> THEN <<>>
    ELSE QueryBackend(Head(names), top_k).results \o Gathered(Tail(names), top_k)

\* C10: a query that returned normally has collected the result lists of the
\* named backend, or of every registered backend when none is named; its result
\* holds, of the results that have an id, only the first-seen one of each id,
\* is in descending order of score (a missing score counting as 0), has at most
\* top_k results, and leaves out a first-seen result only for results whose
\* score is not lower; the results of ids 1, 2, 1 with scores 5, 9, 3 and
\* top_k = 2 give the result of id 2 and then the first one of id 1.
C10_DedupSortTruncate ==
    (qlast.op = "query" /\ qlast.exc = NoExc) =>
        LET c == qlast.collected
            r == qlast.result
        IN /\ c = Gathered(IF qlast.backend = NoBackend THEN registry
                           ELSE <<qlast.backend>>, qlast.top_k)
           /\ \A n \in DOMAIN r :
                 HasId(r[n]) => \E i \in DOMAIN c : c[i] = r[n] /\ FirstOfId(c, i)
           /\ \A n \in DOMAIN r : \E i \in DOMAIN c : c[i] = r[n]
           /\ \A n, m \in DOMAIN r :
                 (n < m /\ HasId(r[n])) => r[n].id # r[m].id
           /\ \A n, m \in DOMAIN r : n < m => ScoreOf(r[n]) >= ScoreOf(r[m])
           /\ Len(r) <= qlast.top_k
           /\ \A i \in DOMAIN c :
                 (FirstOfId(c, i) /\ c[i] \notin Range(r)) =>
                     /\ Len(r) = qlast.top_k
                     /\ \A n \in DOMAIN r : ScoreOf(r[n]) >= ScoreOf(c[i])
           /\ (/\ c = <<Doc("1", "a", TRUE, 5), Doc("2", "b", TRUE, 9),
                        Doc("1", "b", TRUE, 3)>>
               /\ qlast.top_k = 2) =>
                  r = <<Doc("2", "b", TRUE, 9), Doc("1", "a", TRUE, 5)>>

(***************************************************************************)
(* Properties of the construction and the registry (under SpecIndex).      *)
(***************************************************************************)
Called(op) == qlast.op = op

LacksRequired(b) ==
    Enabled(b) /\ \E n \in DOMAIN RequiredFields(b) :
                      config[b].fields[RequiredFields(b)[n]] # "ok"

\* The environment of a failed construction had the module of every enabled
\* backend installed and no client that could not be made.
EnvironmentSound ==
    /\ ipc.broken = {}
    /\ \A b \in BackendNames : Enabled(b) => b \in ipc.installed

\* C12: a construction with an enabled backend that lacks a required field does
\* not succeed, and where the libraries are installed it raises ValueError (the
\* configuration error) naming a required field that an enabled backend lacks,
\* that backend not being in the registry.
C12_MissingFieldNamed ==
    (ipc.pc # "new" /\ \E b \in BackendNames : LacksRequired(b)) =>
        /\ ipc.pc = "failed"
        /\ EnvironmentSound =>
              /\ ipc.exc = "ValueError"
              /\ ipc.backend \in BackendNames
              /\ LacksRequired(ipc.backend)
              /\ \E n \in DOMAIN RequiredFields(ipc.backend) :
                    /\ RequiredFields(ipc.backend)[n] = ipc.field
                    /\ config[ipc.backend].fields[ipc.field] # "ok"
              /\ ipc.backend \notin Range(registry)

\* Enabled backend b could be initialized in the environment of the failed
\* construction: its fields are there, its module installed, its client made.
CouldInitialize(b) ==
    /\ Enabled(b)
    /\ ~LacksRequired(b)
    /\ b \in ipc.installed
    /\ b \notin ipc.broken

\* C13: a backend that cannot be initialized does not keep the others from
\* being registered: the construction fails only when no enabled backend could
\* be initialized, and the index it returns holds enabled backends only.
C13_PartialSuccess ==
    /\ ipc.pc = "failed" => \A b \in BackendNames : ~CouldInitialize(b)
    /\ ipc.pc = "ready" => \A n \in DOMAIN registry : Enabled(registry[n])

\* C14: when the construction has returned, the registry holds exactly the
\* enabled backends, and no step after it (no query, no add_to_index) changes
\* the registry.
C14_RegistryFixed ==
    [][/\ ipc'.pc = "ready" =>
              /\ Range(registry') = {b \in BackendNames : Enabled(b)}
              /\ Len(registry') = Cardinality(Range(registry'))
       /\ ipc.pc = "ready" => registry' = registry]_vars

\* The index built with faiss alone enabled has refused elasticsearch.
C14_Witness ==
    /\ ipc.pc = "ready"
    /\ {b \in BackendNames : Enabled(b)} = {"faiss"}
    /\ registry = <<"faiss">>
    /\ Called("add_to_index")
    /\ qlast.backend = "elasticsearch"

(***************************************************************************)
(* Properties of the reranking workflow and the retrievers (under          *)
(* SpecRetrieval).                                                         *)
(***************************************************************************)
Returned(op) == rcall.op = op /\ rcall.pc = "returned"

\* The score reranker i returned for text, 0 when it did not return it.
ScoreBy(i, text) ==
    LET at == {n \in DOMAIN rcall.answers[i] : rcall.answers[i][n].text = text} IN
    IF at = {} THEN 0 ELSE rcall.answers[i][CHOOSE n \in at : TRUE].score

\* The weight of reranker i: the one given, or an equal share of the whole.
WeightBy(i) ==
    IF rcall.weights = NoWeights THEN WeightUnit \div Len(rcall.answers)
    ELSE rcall.weights[i]

\* The sum of weight * score over the rerankers 1..i.
RECURSIVE CombinedScore(_, _)
CombinedScore(i, text) ==
    IF i = 0 THEN 0 ELSE CombinedScore(i - 1, text) + WeightBy(i) * ScoreBy(i, text)

\* C15: run returns one result for each document, holding its text and its
\* combined score, the sum over the rerankers of weight times the score the
\* reranker returned for the text (0 when it returned none, weights 1/n when
\* none are given), the results being in descending order of combined score.
C15_CombinedScores ==
    Returned("run") =>
        LET r == rcall.result IN
        /\ Len(r) = Len(rcall.documents)
        /\ \A n \in DOMAIN rcall.documents : \E k \in DOMAIN r : r[k].text = rcall.documents[n]
        /\ \A k \in DOMAIN r :
              /\ DOMAIN r[k] = {"text", "score"}
              /\ r[k].score = CombinedScore(Len(rcall.answers), r[k].text)
        /\ \A k, l \in DOMAIN r : k < l => r[k].score >= r[l].score

\* Two rerankers with unequal weights, the first of which left a document out,
\* have put the second document first.
C15_Witness ==
    /\ Returned("run")
    /\ rcall.documents = <<"doc1", "doc2">>
    /\ rcall.weights = <<2, 4>>
    /\ Len(rcall.answers) = 2
    /\ Len(rcall.answers[1]) = 1
    /\ rcall.result[1].text = "doc2"
    /\ rcall.result[1].score > rcall.result[2].score
    /\ rcall.result[2].score > 0

\* The place of text in the documents passed to run.
PlaceOf(text) == CHOOSE n \in DOMAIN rcall.documents : rcall.documents[n] = text

\* C16: results of equal combined score stand in the order their documents had
\* in the input; weights 0.5, 0.5 with scores doc1 1.0, doc2 0.0 of the first
\* reranker and doc1 0.0, doc2 1.0 of the second give both documents 0.5 and
\* the order doc1, doc2, in whatever order the rerankers returned them.
C16_TiesKeepInputOrder ==
    Returned("run") =>
        LET r == rcall.result IN
        /\ \A k, l \in DOMAIN r :
              (k < l /\ r[k].score = r[l].score) => PlaceOf(r[k].text) < PlaceOf(r[l].text)
        /\ (/\ rcall.documents = <<"doc1", "doc2">>
            /\ rcall.weights = <<3, 3>>
            /\ Len(rcall.answers) = 2
            /\ Range(rcall.answers[1]) = {Scored("doc1", 2), Scored("doc2", 0)}
            /\ Range(rcall.answers[2]) = {Scored("doc1", 0), Scored("doc2", 2)})
           => r = <<Scored("doc1", 6), Scored("doc2", 6)>>

\* The spec's example, the second reranker having returned doc2 first.
C16_Witness ==
    /\ Returned("run")
    /\ rcall.documents = <<"doc1", "doc2">>
    /\ rcall.weights = <<3, 3>>
    /\ rcall.answers = << <<Scored("doc1", 2), Scored("doc2", 0)>>,
                          <<Scored("doc2", 2), Scored("doc1", 0)>> >>
    /\ rcall.result = <<Scored("doc1", 6), Scored("doc2", 6)>>

\* Document i of the list has an id that an earlier document of the list has.
RepeatsId(results, i) ==
    /\ results[i].id # Missing
    /\ \E j \in 1..(i - 1) : results[j].id = results[i].id

\* The documents of the list from the i-th on that repeat no earlier id.
RECURSIVE FirstAppearances(_, _)
FirstAppearances(results, i) ==
    IF i > Len(results) THEN <<>>
    ELSE (IF RepeatsId(results, i) THEN <<>> ELSE <<results[i]>>)
         \o FirstAppearances(results, i + 1)

\* C17: the federated query returns the retrievers' lists, one after the other
\* in list order, without the documents whose id an earlier document has: a
\* document is left out only if an earlier one has the same id.
C17_FederatedFirstAppearance ==
    Returned("federated") =>
        rcall.result = FirstAppearances(rcall.lists[1] \o rcall.lists[2], 1)

\* Timestamp t lies within the bounds supplied, both included.
InBounds(t, start_time, end_time) ==
    /\ start_time = NoBound \/ start_time <= t
    /\ end_time = NoBound \/ t <= end_time

BoundsSupplied == rcall.start_time # NoBound \/ rcall.end_time # NoBound

\* C18: the temporal query returns normally and returns, in the base
\* retriever's order, exactly the documents whose timestamp lies within the
\* bounds supplied, a timestamp equal to a bound being within; a document
\* without timestamp is returned only when no bound is supplied.
C18_TemporalRange ==
    Returned("temporal") =>
        /\ rcall.exc = NoExc
        /\ rcall.result =
              SelectSeq(rcall.all_results,
                        LAMBDA doc : IF doc.timestamp = NoTime THEN ~BoundsSupplied
                                     ELSE InBounds(doc.timestamp, rcall.start_time,
                                                   rcall.end_time))

\* C19: with a bound supplied, the temporal query returns normally, returns no
\* document without timestamp and returns every retrieved document whose
\* timestamp lies within the bounds.
C19_NoTimestampLeftOut ==
    (Returned("temporal") /\ BoundsSupplied) =>
        /\ rcall.exc = NoExc
        /\ \A k \in DOMAIN rcall.result : rcall.result[k].timestamp # NoTime
        /\ \A n \in DOMAIN rcall.all_results :
              LET doc == rcall.all_results[n] IN
              (doc.timestamp # NoTime
               /\ InBounds(doc.timestamp, rcall.start_time, rcall.end_time))
              => \E k \in DOMAIN rcall.result : rcall.result[k] = doc

\* C30: on an index whose construction succeeded, an add_to_index or a query
\* that names a registered backend does not raise KeyError for a configuration
\* field that is not there.
C30_FieldsValidatedAtConstruction ==
    (/\ ipc.pc = "ready"
     /\ qlast.op \in {"add_to_index", "query"}
     /\ qlast.backend \in Range(registry))
    => qlast.exc # "KeyError"

\* The orders of the places 1..n.
Orders(n) == {f \in [1..n -> 1..n] : \A i, j \in 1..n : i # j => f[i] # f[j]}
\* The value a document is ranked by: its metadata's field, 0 without one.
RankValue(doc) ==
    IF doc.metadata # NoMetadataDict /\ ConfiguredField \in DOMAIN doc.metadata
    THEN doc.metadata[ConfiguredField]
    ELSE 0

\* C26: rerank returns the input documents rearranged, by descending value of
\* the metadata field for a reranker made with the default (ascending for one
\* made with reverse=False), a document without the field counting as 0, and
\* documents of equal value in their input order.
C26_MetadataOrder ==
    Returned("rerank") =>
        LET docs == rcall.documents
            res == rcall.result
        IN /\ Len(res) = Len(docs)
           /\ \E f \in Orders(Len(docs)) :
                 /\ \A i \in 1..Len(docs) : res[i] = docs[f[i]]
                 /\ \A i, j \in 1..Len(docs) : i < j =>
                       \/ IF rcall.reverse
                          THEN RankValue(docs[f[i]]) > RankValue(docs[f[j]])
                          ELSE RankValue(docs[f[i]]) < RankValue(docs[f[j]])
                       \/ /\ RankValue(docs[f[i]]) = RankValue(docs[f[j]])
                          /\ f[i] < f[j]

\* A default reranker was given a document without the field between one of
\* negative and one of positive value, and two documents of equal value.
C26_Witness ==
    /\ Returned("rerank")
    /\ rcall.reverse
    /\ Len(rcall.documents) = 3
    /\ RankValue(rcall.documents[1]) = -1
    /\ rcall.documents[2].metadata = NoMetadata
    /\ RankValue(rcall.documents[3]) = 0
    /\ rcall.documents[3].metadata # NoMetadata
    /\ rcall.documents[2].text # rcall.documents[3].text
    /\ rcall.result = <<rcall.documents[2], rcall.documents[3], rcall.documents[1]>>

(***************************************************************************)
(* Properties of BaseExampleAdapter (under SpecExample).                   *)
(***************************************************************************)
\* The records of storage s that carry id i.
WithId(s, i) == SelectSeq(s, LAMBDA r : r.id = i)
\* Storage s and storage t hold the same records under the ids other than i.
SameElsewhere(s, t, i) ==
    \A j \in RecordIds \ {i} : WithId(s, j) = WithId(t, j)

C22_WrapperSameContract ==
    (Returned("wrapped") \/ Returned("wrapped_query"))
    => rcall.through = rcall.direct

\* C24: after clear() the backend holds no entry of the adapter's own space
\* and holds every entry of the other space as before.
C24_ClearOwnNamespaceOnly ==
    Returned("clear") =>
        /\ \A n \in DOMAIN rcall.result : n[1] # OwnSpace
        /\ \A n \in DOMAIN rcall.store :
              n[1] = OtherSpace => n \in DOMAIN rcall.result /\ rcall.result[n] = rcall.store[n]

\* C25: similarity_search on an adapter that cannot search raises
\* NotImplementedError (the unsupported-operation error); it does not return.
C25_UnsupportedSearchFails ==
    (Returned("similarity_search") /\ ~CanSearch(rcall.kind, rcall.installed))
    => rcall.exc = "NotImplementedError"

(***************************************************************************)
(* Properties of HybridSharedMemory under concurrent callers (SpecRace).   *)
(***************************************************************************)
Quiescent == \A p \in Procs : hpc[p] = "ready"

\* C28: when no operation is under way, every key the cache holds is held by
\* the durable backend with the same value.
C28_CacheAgreesWithBackend ==
    Quiescent =>
        \A k \in DOMAIN cache :
            /\ Holds(backend, k)
            /\ ValueOf(CacheRead(k)) = ValueOf(BackendRead(k))

(***************************************************************************)
(* Properties of write_scope and read_scope (under SpecScope).             *)
(***************************************************************************)
ScopeRead(p) == HDone(p, "read_scope") /\ hcall[p].exc = NoExc

\* C21: a read_scope that returns gives an entry for exactly the keys the
\* cache's or the backend's read_scope gave: the cache's entry for a key of the
\* cache's result, the backend's entry for the others.
C21_ScopeMergeCacheFirst ==
    \A p \in Procs :
        ScopeRead(p) =>
            /\ DOMAIN hcall[p].result = DOMAIN hcall[p].scopeC \cup DOMAIN hcall[p].scopeB
            /\ \A k \in DOMAIN hcall[p].scopeC : hcall[p].result[k] = hcall[p].scopeC[k]
            /\ \A k \in DOMAIN hcall[p].scopeB \ DOMAIN hcall[p].scopeC :
                  hcall[p].result[k] = hcall[p].scopeB[k]

\* A read_scope found one key in both tiers' results, with different entries.
C21_Witness ==
    \E p \in Procs :
        /\ ScopeRead(p)
        /\ \E k \in DOMAIN hcall[p].scopeC \cap DOMAIN hcall[p].scopeB :
              hcall[p].scopeC[k] # hcall[p].scopeB[k]

\* The entries of store s that read_scope is to return for the arguments a.
InScope(s, a) ==
    {k \in DOMAIN s :
        /\ a.context_id # NoContext => StartsWith(k, a.context_id \o <<":">>)
        /\ a.agent_id # NoId => DictGet(MetadataField(s[k]), "agent_id", "None") = a.agent_id
        /\ a.group_id # NoId => DictGet(MetadataField(s[k]), "group_id", "None") = a.group_id}

\* C23: read_scope of a RedisSharedMemory (here the cache tier) returns exactly
\* the stored entries whose key has the prefix of the context given and whose
\* metadata equal each id given, an argument not given restricting nothing.
C23_ScopeFilter ==
    \A p \in Procs :
        (ScopeRead(p) /\ hkinds.cache = "redis") =>
            /\ DOMAIN hcall[p].scopeC = InScope(cache, hcall[p].args)
            /\ \A k \in DOMAIN hcall[p].scopeC : hcall[p].scopeC[k] = cache[k]

\* C29: a write_scope that returns has stored its entry under one key, the
\* same in the cache and in the durable backend.
C29_ScopeWriteOneKey ==
    \A p \in Procs :
        (HDone(p, "write_scope") /\ hcall[p].exc = NoExc) =>
            /\ Len(hcall[p].keys) = 2
            /\ hcall[p].keys[1] = hcall[p].keys[2]

\* C31: a read(k) that returns right after a read(k) of the same caller that
\* returned (no write or delete between them) returns the same entry, also
\* when the first was served by the backend and the second by the cache.
C31_RepeatedReadSame ==
    \A p \in Procs :
        (HDone(p, "read") /\ hcall[p].exc = NoExc /\ hcall[p].prev.read) =>
            hcall[p].result = hcall[p].prev.result

(***************************************************************************)
(* Properties of the context-scoped writes (under SpecAdapter).            *)
(***************************************************************************)
ScopedWrite(last) == last.op \in {"context_write", "write_scope"}

\* C32: a context-scoped write made at a second for which its context already
\* holds an entry is stored under that entry's key and replaces it (the
\* timestamp stored is the one of this write), every other entry staying:
\* the store gains an entry only for a timestamp not yet written to the context.
C32_SameTimestampOverwrites ==
    [][(alast' # alast /\ ScopedWrite(alast')) =>
          LET k == WrittenAt(alast'.ctx, alast'.now) IN
          /\ DOMAIN store' = DOMAIN store \cup {k}
          /\ \A j \in DOMAIN store \ {k} : store'[j] = store[j]
          /\ ValueField(store'[k]) = alast'.value
          /\ MetadataField(store'[k]).timestamp =
                DictGet(alast'.md, "timestamp", StrfTime(alast'.now))]_vars

\* A write with the caller's own timestamp has just replaced the entry that the
\* same method stored for the same context in the same second.
C32_Witness ==
    /\ alast.op = "context_write"
    /\ alast.again
    /\ alast.now = clock
    /\ Cardinality(DOMAIN store) = 1
    /\ MetadataField(store[alast.key]).timestamp = CallerTimestamp

\* C33: the entry a context-scoped write has stored lies under the key
\* context_id + ":" + the timestamp in the entry's own metadata.
C33_KeyCarriesStoredTimestamp ==
    (ScopedWrite(alast) /\ Holds(store, alast.key)) =>
        alast.key = ContextKey(alast.ctx, MetadataField(store[alast.key]).timestamp)

\* The context id an entry under key k was written with.
WrittenWith(k) == CHOOSE c \in Contexts : \E t \in 0..MaxClock : k = WrittenAt(c, t)

\* C34: read_context(C) lists exactly the stored entries that were written
\* with context id C.
C34_ContextExact ==
    alast.op = "read_context" =>
        {alast.listing[i] : i \in DOMAIN alast.listing} =
            {k \in DOMAIN store : WrittenWith(k) = alast.ctx}

\* Two results have the same identifier of the same kind: the same id, or the
\* same text where neither has an id.
SameIdentifier(a, b) ==
    \/ HasId(a) /\ HasId(b) /\ a.id = b.id
    \/ ~HasId(a) /\ ~HasId(b) /\ a.text = b.text

\* No earlier result of the list has the identifier of results[i].
FirstSeen(results, i) == \A j \in 1..(i - 1) : ~SameIdentifier(results[j], results[i])

\* C35: of the results a query collected, those it returns (when top_k cuts
\* none off) are exactly the first-seen ones of each identifier, a result with
\* an id being identified by the id and one without by its text.
C35_DedupByIdThenText ==
    (qlast.op = "query" /\ qlast.exc = NoExc /\ Len(qlast.result) < qlast.top_k) =>
        LET c == qlast.collected
            r == qlast.result
        IN /\ Len(r) = Cardinality({i \in DOMAIN c : FirstSeen(c, i)})
           /\ \A i \in DOMAIN c : FirstSeen(c, i) => c[i] \in Range(r)
           /\ \A n \in DOMAIN r : \E i \in DOMAIN c : FirstSeen(c, i) /\ c[i] = r[n]

(***************************************************************************)
(* Properties of ThreadSafeAdapter's delegation (under SpecDelegate).      *)
(***************************************************************************)
InWrapped == {p \in Procs : wpc[p] \in {"inside", "delegated"}}

\* C36: whoever is executing a method of the adapter wrapped by a
\* ThreadSafeAdapter holds the wrapper's lock, so that at most one thread is
\* inside the wrapped adapter at any time.
C36_EveryCallUnderLock ==
    /\ \A p \in InWrapped : lockOwner = p
    /\ Cardinality(InWrapped) <= 1

(***************************************************************************)
(* Properties of CentralizedIndex (under SpecCentral).                     *)
(***************************************************************************)
\* The document carries a timestamp that lies more than expiration_days back.
Expired(document, now, days) ==
    /\ "timestamp" \in DictKeys(document.extra_info)
    /\ now - DictValue(document.extra_info, "timestamp").day > days

\* C37: the cleanup made by purge_expired_documents, add_documents and query
\* leaves in the index, when expiration_days is set, exactly the documents it
\* found there whose age does not exceed expiration_days, and every document
\* it found when expiration_days is not set.
C37_PurgeOnlyExpired ==
    alast.op \in {"purge", "add_documents", "query"} =>
        alast.cleaned =
            IF store.expiration.set
            THEN SelectSeq(alast.pre,
                           LAMBDA d : ~Expired(d, alast.now, store.expiration.days))
            ELSE alast.pre

\* The dict the i-th document of the last add_documents call was stored with,
\* and the items of the metadata it was passed with.
StoredWith(i) == store.documents[Len(alast.cleaned) + i].extra_info
PassedItems(i) == MetadataOf(alast.docs[i]).items

\* d has the lower-cased keys of items, each with a value items gave that key.
LowerCased(d, items) ==
    /\ DictKeys(d) = {Lower(k) : k \in DictKeys(items)}
    /\ \A k \in DictKeys(d) :
          \E i \in DOMAIN items : Lower(items[i][1]) = k /\ items[i][2] = DictValue(d, k)

\* C38: add_documents raises ValueError exactly when a document's metadata is
\* no dict; otherwise each document is stored with its metadata under
\* lower-cased keys and unchanged values, normalizing these once more changes
\* nothing, and the timestamp stored is the one of the normalized metadata
\* when they have one, else the time of the call.
C38_NormalizeThenStamp ==
    (alast.op = "add_documents" /\ store.available) =>
        /\ (alast.exc = "ValueError") <=>
              (\E i \in DOMAIN alast.docs : MetadataOf(alast.docs[i]).kind # "dict")
        /\ alast.exc = NoExc =>
              \A i \in DOMAIN alast.docs :
                 LET m == NormalizedItems(PassedItems(i)) IN
                 /\ LowerCased(m, PassedItems(i))
                 /\ NormalizedItems(m) = m
                 /\ \A k \in DictKeys(m) \ {"timestamp"} :
                       DictValue(StoredWith(i), k) = DictValue(m, k)
                 /\ DictKeys(StoredWith(i)) = DictKeys(m) \cup {"timestamp"}
                 /\ DictValue(StoredWith(i), "timestamp") =
                       IF "timestamp" \in DictKeys(m) THEN DictValue(m, "timestamp")
                       ELSE IsoFormat(alast.now)

\* How many elements of the list l have the text.
CountOf(l, text) == Cardinality({n \in DOMAIN l : l[n] = text})

\* C39 (under SpecRepeated): run returns as many results as it was given
\* documents, and for every text as many results as documents have it.
C39_OneResultPerDocument ==
    Returned("run") =>
        /\ Len(rcall.result) = Len(rcall.documents)
        /\ \A text \in Texts :
              CountOf([k \in DOMAIN rcall.result |-> rcall.result[k].text], text)
                 = CountOf(rcall.documents, text)

====
